---- MODULE Spec2Model ----
(***************************************************************************)
(* Tool-calling orchestration loop of the travel agent (src/src/agent.py)  *)
(* with the tool bindings it dispatches to (src/src/tools/*.py).           *)
(*                                                                         *)
(* Python values are abstracted to tags that keep what the code branches   *)
(* on: the Python type, whether a string parses as a %Y-%m-%d date, and    *)
(* truthiness.  A Python dict is a TLA+ function with a string domain.     *)
(* A call outcome is either a returned value or a raised exception.        *)
(***************************************************************************)
EXTENDS Integers, Sequences, FiniteSets, TLC

\* ---------------------------------------------------------------- bounds
\* process_request calls made on one agent in a run
MaxRequests == 2
\* model responses in a run that differ from the scripted default batch
MaxDeviations == 1
\* The model leaves its script only in the first MaxDeviationIteration
\* iterations of a request, or in the last iteration the loop allows
MaxDeviationIteration == 2
\* records accumulated before a final response, when the final branch is
\* taken on its own
MaxRecords == 2

\* ------------------------------------------------------ program constants
max_iterations == 10

SYSTEM_PROMPT == "You are a Travel Workflow Orchestrator Agent."

\* Sentinel for Python's None where a string is otherwise expected
None == "<None>"

\* ------------------------------------------------------- Python values
\* "str": a non-empty string that is not a date ("MAA"); "empty": the empty
\* string; "date": "2025-02-01"; "int": 2; "zero": 0; "true"/"false": bool;
\* "null": None; "dicts": non-empty list of dicts; "strs": non-empty list of
\* strings; "dict": non-empty dict of numbers
Tags ==
  {"str", "empty", "date", "int", "zero", "true", "false", "null", "dicts",
   "strs", "dict"}

PyType(v) ==
  CASE v \in {"str", "empty", "date"} -> "str"
    [] v \in {"int", "zero"} -> "int"
    [] v \in {"true", "false"} -> "bool"
    [] v = "null" -> "NoneType"
    [] v \in {"dicts", "strs"} -> "list"
    [] v = "dict" -> "dict"

\* bool(v)
Truthy(v) == v \notin {"null", "false", "empty", "zero"}

\* hash(v) succeeds
Hashable(v) == PyType(v) \notin {"list", "dict"}

\* int and bool take part in arithmetic
Numeric(v) == PyType(v) \in {"int", "bool"}

NoExc == [exc |-> "none", msg |-> ""]
Exc(t, m) == [exc |-> t, msg |-> m]

\* The first exception raised by a sequence of statements, NoExc if none
FirstExc(steps) ==
  IF \E i \in 1..Len(steps) : steps[i].exc # "none"
  THEN steps[CHOOSE i \in 1..Len(steps) :
               /\ steps[i].exc # "none"
               /\ \A j \in 1..(i - 1) : steps[j].exc = "none"]
  ELSE NoExc

\* datetime.strptime(v, "%Y-%m-%d")
Strptime(v) ==
  IF PyType(v) # "str" THEN Exc("TypeError", "strptime() argument 1 must be str")
  ELSE IF v = "date" THEN NoExc
  ELSE Exc("ValueError", "time data does not match format '%Y-%m-%d'")

\* PRICE_RANGES.get(v, ...) / cabin_map.get(v, ...)
DictGet(v) ==
  IF Hashable(v) THEN NoExc ELSE Exc("TypeError", "unhashable type")

\* int(n * v * 0.12) for an int n
IntTimesFloat(v) ==
  IF Numeric(v) THEN NoExc
  ELSE Exc("TypeError", "can't multiply sequence by non-int of type 'float'")

\* p.get(...) for p in v, after len(v) in the dry-run branch: the empty
\* string has no element, the elements of a string, of a list of strings
\* and of a dict (its keys) are strings
LenAndGet(v, dry_run) ==
  CASE v \in {"dicts", "empty"} -> NoExc
    [] PyType(v) \in {"str", "dict"} \/ v = "strs" ->
         Exc("AttributeError", "'str' object has no attribute 'get'")
    [] OTHER -> IF Truthy(dry_run)
                THEN Exc("TypeError", "object has no len()")
                ELSE Exc("TypeError", "object is not iterable")

\* v.upper() / v.lower()
StrMethod(v) ==
  IF PyType(v) = "str" THEN NoExc
  ELSE Exc("AttributeError", "object has no attribute 'upper'")

\* dict d with d[k] = v assigned
Put(d, k, v) == (k :> v) @@ d

\* Outcome of a call: a returned value or a raised exception, with the
\* calls of tool functions it made (function and keyword arguments)
\* the exception an except clause caught on the way, and the audit records
\* it wrote
Return(r) ==
  [exc |-> "none", msg |-> "", result |-> r, calls |-> <<>>, caught |-> NoExc,
   logs |-> <<>>]
Raise(e) ==
  [exc |-> e.exc, msg |-> e.msg, result |-> <<>>, calls |-> <<>>,
   caught |-> NoExc, logs |-> <<>>]

\* Run body steps; on no exception return r
Body(steps, r) ==
  IF FirstExc(steps).exc = "none" THEN Return(r) ELSE Raise(FirstExc(steps))


\* Outcome o of a call of f(**kw), with that call recorded
WithCall(o, f, kw) ==
  [o EXCEPT !.calls = <<[func |-> f, kwargs |-> kw]>> \o @]

\* ----------------------------------------------------------- JSON values
\* A JSON value as Python sees it: its type, its items when it is a dict,
\* and, for a list or a string, which of the probed keys it contains
JDict(d) == [type |-> "dict", items |-> d, has |-> {}]
JOther(t, members) == [type |-> t, items |-> <<>>, has |-> members]

\* ------------------------------------------------------------ environment
\* What the external collaborators of the tools do in this process:
\* flight_api/search_api: "unset" (no API key), "raises", "fails"
\* (success=false), "empty" (no flights), "flights"/"hotels" (data);
\* hf: "unset" (no token), "fails", "ok"
NoKeys == [flight_api |-> "unset", search_api |-> "unset", hf |-> "unset"]

Envs ==
  { NoKeys,
    [flight_api |-> "flights", search_api |-> "hotels", hf |-> "ok"],
    [flight_api |-> "raises", search_api |-> "raises", hf |-> "fails"],
    [flight_api |-> "fails", search_api |-> "fails", hf |-> "ok"],
    [flight_api |-> "empty", search_api |-> "hotels", hf |-> "unset"] }

\* ------------------------------------------------------------------ tools
\* Required parameters of each tool function
Required ==
  [ search_flights |-> {"origin", "destination", "departure_date", "adults"},
    get_flight_pricing |-> {"flight_offer_id"},
    book_flight |-> {"flight_offer_id", "passengers"},
    search_hotels |-> {"check_in", "check_out", "adults"},
    check_hotel_availability |-> {"hotel_id", "check_in", "check_out"},
    book_hotel |-> {"hotel_offer_id", "guests"},
    estimate_total_cost |-> {"flight_price", "hotel_price", "currency"},
    plan_destination |-> {"destination"},
    get_attractions |-> {"destination"} ]

\* Parameters with a default, and the default
Defaults ==
  [ search_flights |-> [return_date |-> "null", cabin_class |-> "str"],
    get_flight_pricing |-> [currency |-> "str"],
    book_flight |-> [dry_run |-> "false"],
    search_hotels |-> [city_code |-> "null", location |-> "null",
                       rooms |-> "int", amenities |-> "null"],
    check_hotel_availability |-> [rooms |-> "int"],
    book_hotel |-> [payment_info |-> "null", dry_run |-> "false"],
    estimate_total_cost |-> [include_taxes |-> "true",
                             additional_costs |-> "null"],
    plan_destination |-> [days |-> "int", interests |-> "null",
                          travel_style |-> "null", budget |-> "null"],
    get_attractions |-> [category |-> "null", limit |-> "int"] ]

\* Python's binding of keyword arguments kw to the parameters of f
BindExc(f, kw) ==
  IF DOMAIN kw \ (Required[f] \cup DOMAIN Defaults[f]) # {}
  THEN Exc("TypeError", f \o "() got an unexpected keyword argument")
  ELSE IF Required[f] \ DOMAIN kw # {}
  THEN Exc("TypeError", f \o "() missing required positional argument")
  ELSE NoExc

Bound(f, kw) == kw @@ Defaults[f]

\* a + b
Add(a, b) ==
  CASE Numeric(a) /\ Numeric(b) -> "int"
    [] PyType(a) = "str" /\ PyType(b) = "str" -> "str"
    [] PyType(a) = "list" /\ PyType(b) = "list" -> "strs"
    [] OTHER -> "TypeError"

\* Variant of search_flights that gives the failure of the provider back
search_flightsReportsFailure(b, env) ==
  LET mock == Body(<< DictGet(b.cabin_class),
                      Strptime(b.departure_date),
                      IntTimesFloat(b.adults),
                      IF Truthy(b.return_date) THEN Strptime(b.return_date)
                      ELSE NoExc >>,
                   [success |-> TRUE, source |-> "mock"])
  IN IF env.flight_api = "flights" /\ DictGet(b.cabin_class).exc = "none"
     THEN {Return([success |-> TRUE, source |-> "flightapi.io"])}
     ELSE IF env.flight_api \in {"raises", "fails"}
     THEN {Return([success |-> FALSE, error |-> "API request failed"])}
     ELSE {mock}

search_flights(b, env) ==
  LET mock == Body(<< DictGet(b.cabin_class),
                      Strptime(b.departure_date),
                      IntTimesFloat(b.adults),
                      IF Truthy(b.return_date) THEN Strptime(b.return_date)
                      ELSE NoExc >>,
                   [success |-> TRUE, source |-> "mock"])
  IN IF env.flight_api = "flights" /\ DictGet(b.cabin_class).exc = "none"
     THEN {Return([success |-> TRUE, source |-> "flightapi.io"])}
     ELSE {mock}

get_flight_pricing(b, env) ==
  {Return([success |-> TRUE, pricing_confirmed |-> TRUE])}

book_flight(b, env) ==
  {Body(<< LenAndGet(b.passengers, b.dry_run) >>,
        [success |-> TRUE,
         status |-> IF Truthy(b.dry_run) THEN "DRY_RUN" ELSE "CONFIRMED"])}

\* hotels.py line 101: search_location = location or city_code or "Hotels"
SearchLocation(b) ==
  IF Truthy(b.location) THEN b.location
  ELSE IF Truthy(b.city_code) THEN b.city_code ELSE "str"

\* The client of the provider is called and does not raise: for flights
\* after cabin_map.get(cabin_class), for hotels when location.lower() of
\* search_hotels_real works; "raises" is a client that cannot be imported
ClientRuns(f, b, env) ==
  CASE f = "search_flights" ->
         /\ env.flight_api \in {"flights", "fails", "empty"}
         /\ DictGet(b.cabin_class).exc = "none"
    [] f = "search_hotels" ->
         /\ env.search_api \in {"hotels", "fails"}
         /\ StrMethod(SearchLocation(b)).exc = "none"
    [] OTHER -> FALSE

search_hotels(b, env) ==
  LET nights == FirstExc(<< Strptime(b.check_in), Strptime(b.check_out) >>)
      pre == FirstExc(<< IF Truthy(b.city_code) THEN StrMethod(b.city_code)
                         ELSE NoExc,
                         nights,
                         IF Truthy(b.location) THEN StrMethod(b.location)
                         ELSE NoExc >>)
      ok == [success |-> TRUE, source |-> "mock"]
  IN IF /\ env.search_api = "hotels"
        /\ ClientRuns("search_hotels", b, env)
        /\ nights.exc = "none"
     THEN {Return([success |-> TRUE, source |-> "searchapi.io"])}
     ELSE IF pre.exc # "none" THEN {Raise(pre)}
     ELSE {Body(<< IntTimesFloat(b.rooms) >>, ok)}
          \cup (IF Truthy(b.location) THEN {Return(ok)} ELSE {})

check_hotel_availability(b, env) ==
  LET nights == FirstExc(<< Strptime(b.check_in), Strptime(b.check_out) >>)
  IN IF nights.exc # "none" THEN {Raise(nights)}
     ELSE {Return([success |-> TRUE, available |-> a]) : a \in BOOLEAN}

book_hotel(b, env) ==
  {Body(<< LenAndGet(b.guests, b.dry_run) >>,
        [success |-> TRUE,
         status |-> IF Truthy(b.dry_run) THEN "DRY_RUN" ELSE "CONFIRMED"])}

estimate_total_cost(b, env) ==
  LET subtotal == Add(b.flight_price, b.hotel_price)
      arith == IF subtotal = "int" THEN NoExc
               ELSE Exc("TypeError", "unsupported operand type(s)")
  IN {Body(<< IF subtotal = "TypeError" THEN arith ELSE NoExc,
              IF Truthy(b.additional_costs) /\ b.additional_costs # "dict"
              THEN Exc("AttributeError", "object has no attribute 'items'")
              ELSE NoExc,
              arith >>,
           [success |-> TRUE, disclaimer |-> "This is an estimate."])}

\* ", ".join(v)
Join(v) ==
  IF v \in {"str", "empty", "date", "strs", "dict"} THEN NoExc
  ELSE Exc("TypeError", "can only join an iterable")

plan_destination(b, env) ==
  LET e == FirstExc(<< IF env.hf = "unset"
                       THEN Exc("ValueError", "HUGGINGFACE_API_TOKEN not set.")
                       ELSE NoExc,
                       IF Truthy(b.interests) THEN Join(b.interests) ELSE NoExc,
                       IF env.hf = "fails"
                       THEN Exc("HfHubHTTPError", "inference request failed")
                       ELSE NoExc >>)
  IN CASE e.exc = "none" ->
            {Return([success |-> TRUE, generated_by |-> "Mistral-7B-Instruct"])}
       [] e.exc = "ValueError" ->
            {Return([success |-> FALSE, error |-> e.msg])}
       [] OTHER ->
            {Return([success |-> FALSE,
                     error |-> "Failed to generate itinerary: " \o e.msg])}

get_attractions(b, env) ==
  LET e == FirstExc(<< IF env.hf = "unset"
                       THEN Exc("ValueError", "HUGGINGFACE_API_TOKEN not set.")
                       ELSE NoExc,
                       IF env.hf = "fails"
                       THEN Exc("HfHubHTTPError", "inference request failed")
                       ELSE NoExc >>)
  IN IF e.exc = "none"
     THEN {Return([success |-> TRUE, generated_by |-> "Mistral-7B-Instruct"])}
     ELSE {Return([success |-> FALSE,
                   error |-> "Failed to get attractions: " \o e.msg])}

\* ------------------------------------------------------------ audit sink
\* AuditLogger.log: the record one call appends (audit id, timestamp,
\* parameters and result left out)
LogEntry(function_name, tools_selected, success) ==
  [function |-> function_name, tools_selected |-> tools_selected,
   success |-> success]

\* AuditLogger.log_agent_decision
AgentDecision(tools_selected) ==
  LogEntry("_agent_decision", tools_selected, TRUE)

\* The search tools write a fallback record when the provider attempt
\* raised inside their try block, before they go on with mock data
FallbackLogged(f, b, env) ==
  CASE f = "search_flights" ->
         /\ env.flight_api # "unset"
         /\ ~ClientRuns(f, b, env)
    [] f = "search_hotels" ->
         /\ env.search_api # "unset"
         /\ \/ ~ClientRuns(f, b, env)
            \/ /\ env.search_api = "hotels"
               /\ FirstExc(<< Strptime(b.check_in),
                              Strptime(b.check_out) >>).exc # "none"
    [] OTHER -> FALSE

\* search_flights_real and search_hotels_real write a record of their own
\* before they return, with success=false when the request failed
ClientLogs(f, b, env) ==
  IF ~ClientRuns(f, b, env) THEN <<>>
  ELSE IF f = "search_flights"
  THEN << LogEntry("search_flights_real", <<>>, env.flight_api # "fails") >>
  ELSE << LogEntry("search_hotels_real", <<>>, env.search_api # "fails") >>

\* The records written while tool function f runs and its body ends as o:
\* the record of the client, the fallback record, and the record f writes
\* just before it returns
ToolLogs(f, b, env, o) ==
  ClientLogs(f, b, env)
  \o (IF FallbackLogged(f, b, env) THEN << LogEntry(f, <<>>, TRUE) >> ELSE <<>>)
  \o (IF o.exc = "none" THEN << LogEntry(f, <<>>, o.result.success) >>
      ELSE <<>>)

ToolBody(f, b, env) ==
  { [o EXCEPT !.logs = ToolLogs(f, b, env, o)] :
      o \in CASE f = "search_flights" -> search_flights(b, env)
              [] f = "get_flight_pricing" -> get_flight_pricing(b, env)
              [] f = "book_flight" -> book_flight(b, env)
              [] f = "search_hotels" -> search_hotels(b, env)
              [] f = "check_hotel_availability" ->
                   check_hotel_availability(b, env)
              [] f = "book_hotel" -> book_hotel(b, env)
              [] f = "estimate_total_cost" -> estimate_total_cost(b, env)
              [] f = "plan_destination" -> plan_destination(b, env)
              [] f = "get_attractions" -> get_attractions(b, env) }

\* f(**kw): bind, then run the body
PyCall(f, kw, env) ==
  LET e == BindExc(f, kw)
  IN { WithCall(o, f, kw) :
         o \in IF e.exc # "none" THEN {Raise(e)}
               ELSE ToolBody(f, Bound(f, kw), env) }


\* ---------------------------------------------------------------- agent
\* Variant of the catalog that does not advertise get_attractions
TOOL_SCHEMASWithoutAttractions ==
  << "search_flights", "get_flight_pricing", "search_hotels",
     "check_hotel_availability", "estimate_total_cost", "book_flight",
     "book_hotel", "plan_destination" >>

\* schemas.TOOL_SCHEMAS: the tool catalog, each ToolSpec by its name
TOOL_SCHEMAS ==
  << "search_flights", "get_flight_pricing", "search_hotels",
     "check_hotel_availability", "estimate_total_cost", "book_flight",
     "book_hotel", "plan_destination", "get_attractions" >>

\* Variant of the dispatch table with an entry for a name that is not in
\* the catalog
function_mapWithJson ==
  [ search_flights |-> "search_flights",
    get_flight_pricing |-> "get_flight_pricing",
    book_flight |-> "_book_flight_with_dry_run",
    search_hotels |-> "search_hotels",
    check_hotel_availability |-> "check_hotel_availability",
    book_hotel |-> "_book_hotel_with_dry_run",
    estimate_total_cost |-> "estimate_total_cost",
    plan_destination |-> "plan_destination",
    get_attractions |-> "get_attractions",
    json |-> "get_flight_pricing" ]

\* TravelAgent.function_map: tool name -> bound callable
function_map ==
  [ search_flights |-> "search_flights",
    get_flight_pricing |-> "get_flight_pricing",
    book_flight |-> "_book_flight_with_dry_run",
    search_hotels |-> "search_hotels",
    check_hotel_availability |-> "check_hotel_availability",
    book_hotel |-> "_book_hotel_with_dry_run",
    estimate_total_cost |-> "estimate_total_cost",
    plan_destination |-> "plan_destination",
    get_attractions |-> "get_attractions" ]

\* Variant of the flight booking wrapper that sets dry_run only when the
\* model left it out (kwargs.setdefault)
book_flight_with_dry_runSetDefault(kwargs, dry_run_mode, env) ==
  PyCall("book_flight",
         IF dry_run_mode /\ "dry_run" \notin DOMAIN kwargs
         THEN Put(kwargs, "dry_run", "true") ELSE kwargs, env)

\* Variant of the flight booking wrapper that forces dry_run whatever the
\* flag of the process says
book_flight_with_dry_runAlways(kwargs, dry_run_mode, env) ==
  PyCall("book_flight", Put(kwargs, "dry_run", "true"), env)

\* TravelAgent._book_flight_with_dry_run(**kwargs)
book_flight_with_dry_run(kwargs, dry_run_mode, env) ==
  PyCall("book_flight",
         IF dry_run_mode THEN Put(kwargs, "dry_run", "true") ELSE kwargs, env)

\* TravelAgent._book_hotel_with_dry_run(**kwargs)
book_hotel_with_dry_run(kwargs, dry_run_mode, env) ==
  PyCall("book_hotel",
         IF dry_run_mode THEN Put(kwargs, "dry_run", "true") ELSE kwargs, env)

\* func(**arguments) for func = function_map[tool_name]; arguments is
\* whatever json.loads produced
Invoke(func, arguments, dry_run_mode, env) ==
  IF arguments.type # "dict"
  THEN {Raise(Exc("TypeError", "argument after ** must be a mapping"))}
  ELSE CASE func = "_book_flight_with_dry_run" ->
              book_flight_with_dry_run(arguments.items, dry_run_mode, env)
         [] func = "_book_hotel_with_dry_run" ->
              book_hotel_with_dry_run(arguments.items, dry_run_mode, env)
         [] OTHER -> PyCall(func, arguments.items, env)

\* Classes caught by "except Exception"
ExceptionClasses ==
  {"TypeError", "ValueError", "AttributeError", "KeyError", "HfHubHTTPError"}

\* Variant of the except clauses without "except Exception": only TypeError
\* is handled
ExceptClausesTypeErrorOnly(o, tool_name) ==
  IF o.exc = "TypeError"
  THEN [o EXCEPT !.exc = "none", !.msg = "", !.caught = Exc(o.exc, o.msg),
                 !.result = [success |-> FALSE,
                             error |-> "Invalid arguments for " \o tool_name
                                       \o ": " \o o.msg]]
  ELSE o

\* Variant of the except clauses with one handler for every exception, which
\* reports all of them as invalid arguments
ExceptClausesOneHandler(o, tool_name) ==
  IF o.exc \in ExceptionClasses
  THEN [o EXCEPT !.exc = "none", !.msg = "", !.caught = Exc(o.exc, o.msg),
                 !.result = [success |-> FALSE,
                             error |-> "Invalid arguments for " \o tool_name
                                       \o ": " \o o.msg]]
  ELSE o

\* The except clauses of _execute_tool applied to the outcome o of the call
ExceptClauses(o, tool_name) ==
  CASE o.exc = "none" -> o
    [] o.exc = "TypeError" ->
         [o EXCEPT !.exc = "none", !.msg = "", !.caught = Exc(o.exc, o.msg),
                   !.result = [success |-> FALSE,
                               error |-> "Invalid arguments for " \o tool_name
                                         \o ": " \o o.msg]]
    [] o.exc \in ExceptionClasses \ {"TypeError"} ->
         [o EXCEPT !.exc = "none", !.msg = "", !.caught = Exc(o.exc, o.msg),
                   !.result = [success |-> FALSE,
                               error |-> "Function execution failed: "
                                         \o o.msg]]
    [] OTHER -> o

\* Variant of _execute_tool without the membership test of lines 103-107:
\* the lookup self.function_map[tool_name] moves into the try block and its
\* KeyError is reported by "except Exception"
execute_toolNoLookupGuard(tool_name, arguments, dry_run_mode, env) ==
  IF tool_name \notin DOMAIN function_map
  THEN {[Return([success |-> FALSE,
                 error |-> "Function execution failed: '" \o tool_name
                           \o "'"])
           EXCEPT !.caught = Exc("KeyError", "'" \o tool_name \o "'")]}
  ELSE { ExceptClauses(o, tool_name) :
           o \in Invoke(function_map[tool_name], arguments, dry_run_mode, env) }

\* TravelAgent._execute_tool(tool_name, arguments): the possible outcomes
execute_tool(tool_name, arguments, dry_run_mode, env) ==
  IF tool_name \notin DOMAIN function_map
  THEN {Return([success |-> FALSE,
                error |-> "Unknown function: " \o tool_name])}
  ELSE { ExceptClauses(o, tool_name) :
           o \in Invoke(function_map[tool_name], arguments, dry_run_mode, env) }


\* ------------------------------------------------------------ json.loads
ArgsSearch ==
  "{\"origin\": \"MAA\", \"destination\": \"SIN\", \"departure_date\": \"2025-02-01\", \"adults\": 2}"
ArgsSearchBadDate ==
  "{\"origin\": \"MAA\", \"destination\": \"SIN\", \"departure_date\": \"tomorrow\", \"adults\": 2}"
ArgsSearchWrongType ==
  "{\"origin\": 123, \"destination\": \"SIN\", \"departure_date\": \"2025-02-01\", \"adults\": 2}"
ArgsSearchMissing == "{\"origin\": \"MAA\", \"destination\": \"SIN\"}"
ArgsPricing == "{\"flight_offer_id\": \"FLT-1A2B3C4D\"}"
ArgsBook ==
  "{\"flight_offer_id\": \"FLT-1A2B3C4D\", \"passengers\": [{\"first_name\": \"A\", \"last_name\": \"B\"}]}"
ArgsBookNoDryRun ==
  "{\"flight_offer_id\": \"FLT-1A2B3C4D\", \"passengers\": [{\"first_name\": \"A\", \"last_name\": \"B\"}], \"dry_run\": false}"
ArgsHotels ==
  "{\"check_in\": \"2025-02-01\", \"check_out\": \"2025-02-05\", \"adults\": 2, \"city_code\": \"SIN\"}"
ArgsEmpty == "{}"
ArgsList == "[1, 2]"
ArgsMalformed == "{\"hotel_offer_id\": \"HOFFER-1\", \"guests\": [{"

ContentText == "Here are the flights I found."
ContentMessage == "{\"message\": \"Done\"}"
ContentFailure == "{\"success\": false, \"error\": \"No flights found\"}"
ContentWithResults == "{\"message\": \"Done\", \"tool_results\": []}"
ContentNumber == "42"
ContentList == "[\"success\"]"
ContentString == "\"Done\""

Loaded(v) == [exc |-> "none", value |-> v]

\* json.loads(text): the value, or JSONDecodeError for text that is not JSON
JsonLoads(text) ==
  CASE text = ArgsSearch ->
         Loaded(JDict([origin |-> "str", destination |-> "str",
                       departure_date |-> "date", adults |-> "int"]))
    [] text = ArgsSearchBadDate ->
         Loaded(JDict([origin |-> "str", destination |-> "str",
                       departure_date |-> "str", adults |-> "int"]))
    [] text = ArgsSearchWrongType ->
         Loaded(JDict([origin |-> "int", destination |-> "str",
                       departure_date |-> "date", adults |-> "int"]))
    [] text = ArgsSearchMissing ->
         Loaded(JDict([origin |-> "str", destination |-> "str"]))
    [] text = ArgsPricing -> Loaded(JDict([flight_offer_id |-> "str"]))
    [] text = ArgsBook ->
         Loaded(JDict([flight_offer_id |-> "str", passengers |-> "dicts"]))
    [] text = ArgsBookNoDryRun ->
         Loaded(JDict([flight_offer_id |-> "str", passengers |-> "dicts",
                       dry_run |-> "false"]))
    [] text = ArgsHotels ->
         Loaded(JDict([check_in |-> "date", check_out |-> "date",
                       adults |-> "int", city_code |-> "str"]))
    [] text = ArgsEmpty -> Loaded(JDict(<<>>))
    [] text = ArgsList -> Loaded(JOther("list", {}))
    [] text = ContentMessage -> Loaded(JDict([message |-> "Done"]))
    [] text = ContentFailure ->
         Loaded(JDict([success |-> FALSE, error |-> "No flights found"]))
    [] text = ContentWithResults ->
         Loaded(JDict([message |-> "Done", tool_results |-> <<>>]))
    [] text = ContentNumber -> Loaded(JOther("int", {}))
    [] text = ContentList -> Loaded(JOther("list", {"success"}))
    [] text = ContentString -> Loaded(JOther("str", {}))
    [] OTHER -> [exc |-> "JSONDecodeError", value |-> <<>>]

\* json.dumps(result)
JsonDumps(result) == [json |-> result]


\* key in v; only dict, list and str support the test
CanContain(v) == v.type \in {"dict", "list", "str"}
Contains(v, key) ==
  IF v.type = "dict" THEN key \in DOMAIN v.items ELSE key \in v.has

\* v[key] = x: a dict takes it, anything else raises TypeError
SetItem(v, key, x) ==
  IF v.type = "dict"
  THEN [exc |-> "none", value |-> JDict(Put(v.items, key, x))]
  ELSE [exc |-> "TypeError", value |-> v]

\* The else-branch of process_request up to the value it is about to return:
\* [exc, value], exc = "TypeError" when a statement raises
final_response(final_content, all_tool_results) ==
  LET parsed == JsonLoads(final_content)
      r0 == IF parsed.exc = "none" THEN parsed.value
            ELSE JDict([message |-> final_content,
                        tool_results |-> all_tool_results])
      s1 == IF ~CanContain(r0) THEN [exc |-> "TypeError", value |-> r0]
            ELSE IF ~Contains(r0, "success") THEN SetItem(r0, "success", TRUE)
            ELSE [exc |-> "none", value |-> r0]
      r1 == s1.value
  IN IF s1.exc # "none" THEN s1
     ELSE IF all_tool_results # <<>> /\ ~Contains(r1, "tool_results")
     THEN SetItem(r1, "tool_results", all_tool_results)
     ELSE s1

\* ------------------------------------------------------------------ state
VARIABLES
  messages,          \* self.messages: the transcript
  dry_run_mode,      \* self.config.dry_run_mode
  env,               \* what the tools' external collaborators do
  pc,                \* position in process_request, or how the last call ended
  iteration,         \* local iteration
  all_tool_results,  \* local all_tool_results
  message,           \* local message: the model response being processed
  tc_index,          \* position of the for loop in message.tool_calls
  func_name,         \* local func_name of the invocation in progress
  arguments,         \* local arguments of the invocation in progress
  response,          \* value returned by the last call on the agent
  raised,            \* exception that escaped the last call, or "none"
  model_calls,       \* chat.completions.create calls made by this request
  create_kwargs,     \* what the last chat.completions.create call was given
  pending,           \* the blocking call process_request is inside of
  invoked,           \* tool function calls made by this request
  requests,          \* process_request calls made so far
  deviations,        \* model responses so far that left the default script
  next_id,           \* next tool call id the model hands out
  ex,                \* one _execute_tool call on its own: input and outcome
  tools,             \* self.tools, the list object schemas.TOOL_SCHEMAS
  audit              \* the audit sink: the records of the log file, in order

vars == << messages, dry_run_mode, env, pc, iteration, all_tool_results,
           message, tc_index, func_name, arguments, response, raised,
           model_calls, create_kwargs, pending, invoked, requests, deviations,
           next_id, ex, tools, audit >>

NoMessage == [content |-> None, tool_calls |-> <<>>]
NoCall == [messages |-> <<>>, tools |-> <<>>]
NoArguments == JOther("NoneType", {})
NoResponse == [returned |-> FALSE, value |-> NoArguments]
Returned(v) == [returned |-> TRUE, value |-> v]
NoEx == [phase |-> "off"]
NoPending == [kind |-> "none"]

Ended == {"idle", "done", "aborted", "raised"}

\* ------------------------------------------------------- the model's side
UserInputs == {"Search flights from MAA to SIN for 2 adults on 2025-02-01"}

Call(n, a) == [name |-> n, arguments |-> a]

\* The batch the model requests at iteration i when it follows its script
DefaultBatch(i) ==
  IF i % 2 = 1 THEN << Call("search_flights", ArgsSearch) >>
  ELSE << Call("json", ArgsEmpty), Call("get_flight_pricing", ArgsPricing) >>

\* Other batches the model may request
DeviationBatches ==
  { << Call("book_flight", ArgsBook),
       Call("book_hotel", ArgsMalformed),
       Call("search_hotels", ArgsHotels) >>,
    << Call("search_flights", ArgsSearchBadDate),
       Call("search_flights", ArgsSearchMissing),
       Call("get_flight_pricing", ArgsList),
       Call("search_flights", ArgsSearchWrongType),
       Call("book_flights", ArgsBookNoDryRun) >> }

\* The model may leave its script at iteration iter
MayDeviate(iter) ==
  /\ deviations < MaxDeviations
  /\ iter <= MaxDeviationIteration \/ iter = max_iterations

\* message.content of a response without tool calls
FinalContents == {ContentText, ContentMessage, ContentNumber}

\* str(e) of a failed chat.completions.create
ApiErrors == {"Connection error."}

\* tool_calls of a response: the batch with fresh ids
WithIds(batch, first) ==
  [i \in 1..Len(batch) |->
     [id |-> first + i - 1, name |-> batch[i].name,
      arguments |-> batch[i].arguments]]

\* ------------------------------------------------------- loop statements
\* Variant of the argument parsing that leaves arguments unset (None) when
\* the text is not JSON
ParsedArgumentsNoneOnFailure(text) ==
  IF JsonLoads(text).exc = "none" THEN JsonLoads(text).value
  ELSE JOther("NoneType", {})

\* lines 209-212: arguments = json.loads(text), {} on JSONDecodeError
ParsedArguments(text) ==
  IF JsonLoads(text).exc = "none" THEN JsonLoads(text).value ELSE JDict(<<>>)

\* line 238: final_content = message.content or ""
FinalContent(content) == IF content = None THEN "" ELSE content

\* Variant of the loop test that is off by one
LoopTestOffByOne(iter) == iter <= max_iterations

\* line 159: the test of the while loop
LoopTest(iter) == iter < max_iterations

\* Variant of the record list that puts the newest record first
AppendRecordFirst(records, name, args, result) ==
  << [function |-> name, arguments |-> args, result |-> result] >> \o records

\* Variant of the record list that keeps only the records of successful
\* invocations
AppendRecordSuccessOnly(records, name, args, result) ==
  IF result.success
  THEN Append(records,
              [function |-> name, arguments |-> args, result |-> result])
  ELSE records

\* Variant of the record list that keeps one record per function in a row:
\* a record replaces the one before it when both are of the same function
AppendRecordReplaceRepeat(records, name, args, result) ==
  IF Len(records) > 0 /\ records[Len(records)].function = name
  THEN [records EXCEPT ![Len(records)] =
          [function |-> name, arguments |-> args, result |-> result]]
  ELSE Append(records,
              [function |-> name, arguments |-> args, result |-> result])

\* lines 224-228: all_tool_results.append({...})
AppendRecord(records, name, args, result) ==
  Append(records, [function |-> name, arguments |-> args, result |-> result])

\* Variant of the tool turn that always carries the id of the batch's first
\* tool call
ToolTurnFirstId(tool_calls, idx, result) ==
  [role |-> "tool", tool_call_id |-> tool_calls[1].id,
   content |-> JsonDumps(result)]

\* lines 231-235: the tool turn of the tool call at position idx
ToolTurn(tool_calls, idx, result) ==
  [role |-> "tool", tool_call_id |-> tool_calls[idx].id,
   content |-> JsonDumps(result)]

\* Variant of the for loop that leaves the batch after its first tool call
AfterToolBreak(tool_calls, idx) == "await_model"

\* line 207: where control goes after the tool call at position idx
AfterTool(tool_calls, idx) ==
  IF idx < Len(tool_calls) THEN "execute_tools" ELSE "await_model"

\* lines 266-270: the value returned when the loop runs out
MaxIterationsResponse(records) ==
  JDict([success |-> FALSE, error |-> "Maximum iterations reached",
         tool_results |-> records])

\* Variant of the error result that reports no records
ApiErrorResponseNoRecords(e, records) ==
  JDict([success |-> FALSE, error |-> "LLM API error: " \o e,
         tool_results |-> <<>>])

\* lines 171-175: the value returned when the model call raises e
ApiErrorResponse(e, records) ==
  JDict([success |-> FALSE, error |-> "LLM API error: " \o e,
         tool_results |-> records])

\* schemas.get_tool_schemas(): the list object itself, not a copy
get_tool_schemas == tools

\* ------------------------------------------------------------------- Init
Init ==
  /\ messages = <<>>
  /\ dry_run_mode \in BOOLEAN
  /\ env = NoKeys
  /\ pc = "idle"
  /\ iteration = 0
  /\ all_tool_results = <<>>
  /\ message = NoMessage
  /\ tc_index = 0
  /\ func_name = None
  /\ arguments = NoArguments
  /\ response = NoResponse
  /\ raised = "none"
  /\ model_calls = 0
  /\ create_kwargs = NoCall
  /\ pending = NoPending
  /\ invoked = <<>>
  /\ requests = 0
  /\ deviations = 0
  /\ next_id = 1
  /\ tools = TOOL_SCHEMAS
  /\ audit = <<>>
  /\ ex = NoEx

\* ---------------------------------------------------------------- actions
\* Variant of the start of a request that puts the system turn in front of
\* every user turn
StartRequestAlwaysSystem(user_input) ==
  /\ pc \in Ended
  /\ requests < MaxRequests
  /\ requests' = requests + 1
  /\ messages' = messages
                 \o << [role |-> "system", content |-> SYSTEM_PROMPT],
                       [role |-> "user", content |-> user_input] >>
  /\ all_tool_results' = <<>>
  /\ iteration' = 0
  /\ message' = NoMessage
  /\ tc_index' = 0
  /\ func_name' = None
  /\ arguments' = NoArguments
  /\ model_calls' = 0
  /\ create_kwargs' = NoCall
  /\ pending' = NoPending
  /\ invoked' = <<>>
  /\ response' = NoResponse
  /\ raised' = "none"
  /\ pc' = "log_decision"
  /\ UNCHANGED << dry_run_mode, tools, audit, env, deviations, next_id, ex >>

\* Variant of the start of a request that keeps only the system turn of the
\* earlier transcript
StartRequestTrimsHistory(user_input) ==
  /\ pc \in Ended
  /\ requests < MaxRequests
  /\ requests' = requests + 1
  /\ messages' = << [role |-> "system", content |-> SYSTEM_PROMPT],
                    [role |-> "user", content |-> user_input] >>
  /\ all_tool_results' = <<>>
  /\ iteration' = 0
  /\ message' = NoMessage
  /\ tc_index' = 0
  /\ func_name' = None
  /\ arguments' = NoArguments
  /\ model_calls' = 0
  /\ create_kwargs' = NoCall
  /\ pending' = NoPending
  /\ invoked' = <<>>
  /\ response' = NoResponse
  /\ raised' = "none"
  /\ pc' = "log_decision"
  /\ UNCHANGED << dry_run_mode, tools, audit, env, deviations, next_id, ex >>

\* Variant of the start of a request that keeps the iteration counter and
\* the record buffer of the request before
StartRequestKeepsCounters(user_input) ==
  /\ pc \in Ended
  /\ requests < MaxRequests
  /\ requests' = requests + 1
  /\ messages' = (IF messages = <<>>
                  THEN << [role |-> "system", content |-> SYSTEM_PROMPT] >>
                  ELSE messages)
                 \o << [role |-> "user", content |-> user_input] >>
  /\ message' = NoMessage
  /\ tc_index' = 0
  /\ func_name' = None
  /\ arguments' = NoArguments
  /\ model_calls' = 0
  /\ create_kwargs' = NoCall
  /\ pending' = NoPending
  /\ invoked' = <<>>
  /\ response' = NoResponse
  /\ raised' = "none"
  /\ pc' = "log_decision"
  /\ UNCHANGED << dry_run_mode, tools, audit, env, deviations, next_id, ex, iteration,
                  all_tool_results >>

\* Variant of the start of a request that appends the user turn before it
\* creates the system turn
StartRequestUserFirst(user_input) ==
  /\ pc \in Ended
  /\ requests < MaxRequests
  /\ requests' = requests + 1
  /\ messages' = messages
                 \o << [role |-> "user", content |-> user_input] >>
                 \o (IF messages = <<>>
                     THEN << [role |-> "system", content |-> SYSTEM_PROMPT] >>
                     ELSE <<>>)
  /\ audit' = audit
  /\ all_tool_results' = <<>>
  /\ iteration' = 0
  /\ message' = NoMessage
  /\ tc_index' = 0
  /\ func_name' = None
  /\ arguments' = NoArguments
  /\ model_calls' = 0
  /\ create_kwargs' = NoCall
  /\ pending' = NoPending
  /\ invoked' = <<>>
  /\ response' = NoResponse
  /\ raised' = "none"
  /\ pc' = "log_decision"
  /\ UNCHANGED << dry_run_mode, tools, env, deviations, next_id, ex >>

\* process_request, lines 134-145: the turns of the request are appended;
\* the call of log_agent_decision that follows opens the log file
StartRequest(user_input) ==
  /\ pc \in Ended
  /\ requests < MaxRequests
  /\ requests' = requests + 1
  /\ messages' = (IF messages = <<>>
                  THEN << [role |-> "system", content |-> SYSTEM_PROMPT] >>
                  ELSE messages)
                 \o << [role |-> "user", content |-> user_input] >>
  /\ all_tool_results' = <<>>
  /\ iteration' = 0
  /\ message' = NoMessage
  /\ tc_index' = 0
  /\ func_name' = None
  /\ arguments' = NoArguments
  /\ model_calls' = 0
  /\ create_kwargs' = NoCall
  /\ pending' = NoPending
  /\ invoked' = <<>>
  /\ response' = NoResponse
  /\ raised' = "none"
  /\ pc' = "log_decision"
  /\ UNCHANGED << dry_run_mode, tools, audit, env, deviations, next_id, ex >>

\* lines 148-157: the decision record of the request is written and the
\* locals of the loop are set
LogDecision ==
  /\ pc = "log_decision"
  /\ audit' = Append(audit, AgentDecision(<<>>))
  /\ pc' = "await_model"
  /\ UNCHANGED << messages, dry_run_mode, tools, env, iteration,
                  all_tool_results, message, tc_index, func_name, arguments,
                  response, raised, model_calls, create_kwargs, pending,
                  invoked, requests, deviations, next_id, ex >>

\* Variant of the model query that, in dry-run mode, takes the booking tools
\* out of the list it passes to the model
ModelQueryHidesBooking ==
  /\ pc = "await_model"
  /\ LoopTest(iteration)
  /\ iteration' = iteration + 1
  /\ model_calls' = model_calls + 1
  /\ create_kwargs' = [messages |-> messages, tools |-> tools]
  /\ tools' = IF dry_run_mode
              THEN SelectSeq(tools, LAMBDA n : n \notin {"book_flight",
                                                         "book_hotel"})
              ELSE tools
  /\ pending' = pending
  /\ pc' = "model_call"
  /\ UNCHANGED << messages, dry_run_mode, audit, env, all_tool_results,
                  message, tc_index, func_name, arguments, response, raised,
                  invoked, requests, deviations, next_id, ex >>

\* Variant of the model query that gives the model the system turn and the
\* turns of the current request only
ModelQueryCurrentRequestOnly ==
  /\ pc = "await_model"
  /\ LoopTest(iteration)
  /\ iteration' = iteration + 1
  /\ model_calls' = model_calls + 1
  /\ create_kwargs' =
       [messages |->
          LET last == CHOOSE i \in 1..Len(messages) :
                        /\ messages[i].role = "user"
                        /\ \A j \in (i + 1)..Len(messages) :
                             messages[j].role # "user"
          IN << messages[1] >> \o SubSeq(messages, last, Len(messages)),
        tools |-> tools]
  /\ pending' = pending
  /\ pc' = "model_call"
  /\ UNCHANGED << messages, dry_run_mode, tools, audit, env,
                  all_tool_results, message, tc_index, func_name, arguments,
                  response, raised, invoked, requests, deviations, next_id,
                  ex >>

\* lines 159-169: the loop test passes and the model is queried
ModelQuery ==
  /\ pc = "await_model"
  /\ LoopTest(iteration)
  /\ iteration' = iteration + 1
  /\ model_calls' = model_calls + 1
  /\ create_kwargs' = [messages |-> messages, tools |-> tools]
  /\ pending' = pending
  /\ pc' = "model_call"
  /\ UNCHANGED << messages, dry_run_mode, tools, audit, env, all_tool_results,
                  message, tc_index, func_name, arguments, response, raised,
                  invoked, requests, deviations, next_id, ex >>

\* lines 159, 265-270: the loop test fails
MaxIterationsReached ==
  /\ pc = "await_model"
  /\ ~LoopTest(iteration)
  /\ response' = Returned(MaxIterationsResponse(all_tool_results))
  /\ pc' = "aborted"
  /\ UNCHANGED << messages, dry_run_mode, tools, audit, env, iteration,
                  all_tool_results, message, tc_index, func_name, arguments,
                  raised, model_calls, create_kwargs, pending, invoked, requests,
                  deviations, next_id, ex >>

\* Variant of the failure handling that takes the last turn off the
\* transcript
ModelFailsDropsLastTurn(e) ==
  /\ pc = "model_call"
  /\ MayDeviate(iteration)
  /\ deviations' = deviations + 1
  /\ pending' = [kind |-> "error",
                 error_result |-> ApiErrorResponse(e, all_tool_results)]
  /\ messages' = SubSeq(messages, 1, Len(messages) - 1)
  /\ pc' = "log_error"
  /\ UNCHANGED << dry_run_mode, tools, audit, env, iteration,
                  all_tool_results, message, tc_index, func_name, arguments,
                  response, raised, model_calls, create_kwargs, invoked,
                  requests, next_id, ex >>

\* lines 170-175: chat.completions.create raises and error_result is built;
\* the call of logger.log that follows opens the log file
ModelFails(e) ==
  /\ pc = "model_call"
  /\ MayDeviate(iteration)
  /\ deviations' = deviations + 1
  /\ pending' = [kind |-> "error",
                 error_result |-> ApiErrorResponse(e, all_tool_results)]
  /\ pc' = "log_error"
  /\ UNCHANGED << messages, dry_run_mode, tools, audit, env, iteration,
                  all_tool_results, message, tc_index, func_name, arguments,
                  response, raised, model_calls, create_kwargs, invoked,
                  requests, next_id, ex >>

\* lines 176-182: the _agent_error record is written
LogError ==
  /\ pc = "log_error"
  /\ audit' = Append(audit, LogEntry("_agent_error", <<>>, FALSE))
  /\ pc' = "error_logged"
  /\ UNCHANGED << messages, dry_run_mode, tools, env, iteration,
                  all_tool_results, message, tc_index, func_name, arguments,
                  response, raised, model_calls, create_kwargs, pending,
                  invoked, requests, deviations, next_id, ex >>

\* line 183: return error_result
ReturnError ==
  /\ pc = "error_logged"
  /\ response' = Returned(pending.error_result)
  /\ pending' = NoPending
  /\ pc' = "done"
  /\ UNCHANGED << messages, dry_run_mode, tools, audit, env, iteration,
                  all_tool_results, message, tc_index, func_name, arguments,
                  raised, model_calls, create_kwargs, invoked, requests,
                  deviations, next_id, ex >>

\* lines 185-204: the response carries tool calls
ModelRequestsTools(batch) ==
  /\ pc = "model_call"
  /\ Len(batch) > 0
  /\ \/ batch = DefaultBatch(iteration) /\ deviations' = deviations
     \/ /\ batch # DefaultBatch(iteration)
        /\ MayDeviate(iteration)
        /\ deviations' = deviations + 1
  /\ message' = [content |-> None, tool_calls |-> WithIds(batch, next_id)]
  /\ next_id' = next_id + Len(batch)
  /\ messages' = Append(messages,
                        [role |-> "assistant", content |-> message'.content,
                         tool_calls |->
                           [i \in 1..Len(batch) |->
                              [id |-> message'.tool_calls[i].id,
                               type |-> "function",
                               function |->
                                 [name |-> message'.tool_calls[i].name,
                                  arguments |->
                                    message'.tool_calls[i].arguments]]]])
  /\ tc_index' = 1
  /\ pc' = "execute_tools"
  /\ UNCHANGED << dry_run_mode, tools, audit, env, iteration,
                  all_tool_results, func_name, arguments, response, raised,
                  model_calls, create_kwargs, pending, invoked, requests, ex >>

\* lines 207-213: the next tool call of the batch is taken and its argument
\* text parsed; the call of log_agent_decision that follows opens the log
\* file
ToolParse ==
  /\ pc = "execute_tools"
  /\ LET tool_call == message.tool_calls[tc_index]
     IN /\ func_name' = tool_call.name
        /\ arguments' = ParsedArguments(tool_call.arguments)
  /\ pc' = "log_dispatch"
  /\ UNCHANGED << messages, dry_run_mode, tools, audit, env, iteration,
                  all_tool_results, message, tc_index, response, raised,
                  model_calls, create_kwargs, pending, invoked, requests,
                  deviations, next_id, ex >>

\* Variant of the dispatch that writes no decision record
ToolDispatchNoDecision ==
  /\ pc = "log_dispatch"
  /\ pc' = "tool_call"
  /\ UNCHANGED << messages, dry_run_mode, tools, audit, env, iteration,
                  all_tool_results, message, tc_index, func_name, arguments,
                  response, raised, model_calls, create_kwargs, pending,
                  invoked, requests, deviations, next_id, ex >>

\* lines 216-220: the decision record of the tool call is written
ToolDispatch ==
  /\ pc = "log_dispatch"
  /\ audit' = Append(audit, AgentDecision(<< func_name >>))
  /\ pc' = "tool_call"
  /\ UNCHANGED << messages, dry_run_mode, tools, env, iteration,
                  all_tool_results, message, tc_index, func_name, arguments,
                  response, raised, model_calls, create_kwargs, pending,
                  invoked, requests, deviations, next_id, ex >>

\* line 223: _execute_tool is entered and the tool function runs up to the
\* first record it writes; pending.out is what the call comes to
ToolCall ==
  /\ pc = "tool_call"
  /\ \E o \in execute_tool(func_name, arguments, dry_run_mode, env) :
       /\ invoked' = invoked \o o.calls
       /\ pending' = [kind |-> "tool", out |-> o, written |-> 0]
  /\ pc' = "tool_body"
  /\ UNCHANGED << messages, dry_run_mode, tools, audit, env, iteration,
                  all_tool_results, message, tc_index, func_name, arguments,
                  response, raised, model_calls, create_kwargs, requests,
                  deviations, next_id, ex >>

\* The tool function in progress writes its next record
ToolLog ==
  /\ pc = "tool_body"
  /\ pending.written < Len(pending.out.logs)
  /\ audit' = Append(audit, pending.out.logs[pending.written + 1])
  /\ pending' = [pending EXCEPT !.written = @ + 1]
  /\ UNCHANGED << messages, dry_run_mode, tools, env, pc, iteration,
                  all_tool_results, message, tc_index, func_name, arguments,
                  response, raised, model_calls, create_kwargs, invoked,
                  requests, deviations, next_id, ex >>

\* lines 223-235: _execute_tool ends; record and tool turn are appended
ToolReturn ==
  /\ pc = "tool_body"
  /\ pending.written = Len(pending.out.logs)
  /\ LET o == pending.out
     IN IF o.exc = "none"
        THEN /\ all_tool_results' =
                  AppendRecord(all_tool_results, func_name, arguments,
                               o.result)
             /\ messages' =
                  Append(messages,
                         ToolTurn(message.tool_calls, tc_index, o.result))
             /\ pc' = AfterTool(message.tool_calls, tc_index)
             /\ tc_index' = IF pc' = "execute_tools" THEN tc_index + 1
                            ELSE tc_index
             /\ raised' = raised
        ELSE /\ raised' = o.exc
             /\ pc' = "raised"
             /\ UNCHANGED << all_tool_results, messages, tc_index >>
  /\ pending' = NoPending
  /\ UNCHANGED << dry_run_mode, tools, audit, env, iteration, message,
                  func_name, arguments, response, model_calls, create_kwargs,
                  invoked, requests, deviations, next_id, ex >>

\* lines 236-263: the response carries no tool calls
\* Variant of the zero-tool branch which stamps the envelope with the
\* dry-run mode of the instance
FinalAnswerStampsMode(content) ==
  /\ pc = "model_call"
  /\ message' = [content |-> content, tool_calls |-> <<>>]
  /\ LET final_content == FinalContent(content)
         r == final_response(final_content, all_tool_results)
     IN IF r.exc = "none"
        THEN /\ messages' = Append(messages, [role |-> "assistant",
                                              content |-> final_content])
             /\ response' = Returned(SetItem(r.value, "dry_run",
                                             dry_run_mode).value)
             /\ raised' = raised
             /\ pc' = "done"
        ELSE /\ raised' = r.exc
             /\ pc' = "raised"
             /\ UNCHANGED << messages, response >>
  /\ UNCHANGED << dry_run_mode, tools, audit, env, iteration,
                  all_tool_results, tc_index, func_name, arguments,
                  model_calls, create_kwargs, pending, invoked, requests, next_id, ex >>

FinalAnswer(content) ==
  /\ pc = "model_call"
  /\ message' = [content |-> content, tool_calls |-> <<>>]
  /\ LET final_content == FinalContent(content)
         r == final_response(final_content, all_tool_results)
     IN IF r.exc = "none"
        THEN /\ messages' = Append(messages, [role |-> "assistant",
                                              content |-> final_content])
             /\ response' = Returned(r.value)
             /\ raised' = raised
             /\ pc' = "done"
        ELSE /\ raised' = r.exc
             /\ pc' = "raised"
             /\ UNCHANGED << messages, response >>
  /\ UNCHANGED << dry_run_mode, tools, audit, env, iteration,
                  all_tool_results, tc_index, func_name, arguments,
                  model_calls, create_kwargs, pending, invoked, requests, next_id, ex >>

\* The model answers without tool calls, leaving its script
ModelFinal(content) ==
  /\ MayDeviate(iteration)
  /\ deviations' = deviations + 1
  /\ FinalAnswer(content)

\* Variant of the reset that keeps the system turn of the old transcript
ResetConversationKeepsSystem ==
  /\ pc \in Ended
  /\ messages' = SelectSeq(messages, LAMBDA t : t.role = "system")
  /\ pc' = "idle"
  /\ response' = NoResponse
  /\ raised' = "none"
  /\ iteration' = 0
  /\ all_tool_results' = <<>>
  /\ message' = NoMessage
  /\ tc_index' = 0
  /\ func_name' = None
  /\ arguments' = NoArguments
  /\ model_calls' = 0
  /\ create_kwargs' = NoCall
  /\ pending' = NoPending
  /\ invoked' = <<>>
  /\ UNCHANGED << dry_run_mode, tools, audit, env, requests, deviations,
                  next_id, ex >>

\* reset_conversation, lines 272-274; the frame of the finished
\* process_request is gone and the call returns None
ResetConversation ==
  /\ pc \in Ended
  /\ messages' = <<>>
  /\ pc' = "idle"
  /\ response' = NoResponse
  /\ raised' = "none"
  /\ iteration' = 0
  /\ all_tool_results' = <<>>
  /\ message' = NoMessage
  /\ tc_index' = 0
  /\ func_name' = None
  /\ arguments' = NoArguments
  /\ model_calls' = 0
  /\ create_kwargs' = NoCall
  /\ pending' = NoPending
  /\ invoked' = <<>>
  /\ UNCHANGED << dry_run_mode, tools, audit, env, requests, deviations,
                  next_id, ex >>

Next ==
  \/ \E u \in UserInputs : StartRequest(u)
  \/ LogDecision
  \/ ModelQuery
  \/ MaxIterationsReached
  \/ \E e \in ApiErrors : ModelFails(e)
  \/ LogError
  \/ ReturnError
  \/ \E b \in {DefaultBatch(iteration)} \cup DeviationBatches :
       ModelRequestsTools(b)
  \/ ToolParse
  \/ ToolDispatch
  \/ ToolCall
  \/ ToolLog
  \/ ToolReturn
  \/ \E c \in FinalContents : ModelFinal(c)
  \/ ResetConversation

Spec == Init /\ [][Next]_vars


\* --------------------------------------------- _execute_tool on its own
\* TOOL_SCHEMAS: the declared type of each parameter
ParamTypes ==
  [ search_flights |->
      [origin |-> "string", destination |-> "string",
       departure_date |-> "string", return_date |-> "string",
       adults |-> "integer", cabin_class |-> "string"],
    get_flight_pricing |-> [flight_offer_id |-> "string", currency |-> "string"],
    search_hotels |->
      [city_code |-> "string", location |-> "string", check_in |-> "string",
       check_out |-> "string", adults |-> "integer", rooms |-> "integer",
       amenities |-> "array of string"],
    check_hotel_availability |->
      [hotel_id |-> "string", check_in |-> "string", check_out |-> "string",
       rooms |-> "integer"],
    estimate_total_cost |->
      [flight_price |-> "number", hotel_price |-> "number",
       currency |-> "string", include_taxes |-> "boolean",
       additional_costs |-> "object"],
    book_flight |->
      [flight_offer_id |-> "string", passengers |-> "array of object",
       dry_run |-> "boolean"],
    book_hotel |->
      [hotel_offer_id |-> "string", guests |-> "array of object",
       payment_info |-> "object", dry_run |-> "boolean"],
    plan_destination |->
      [destination |-> "string", days |-> "integer",
       interests |-> "array of string", travel_style |-> "string",
       budget |-> "string"],
    get_attractions |->
      [destination |-> "string", category |-> "string", limit |-> "integer"] ]

\* TOOL_SCHEMAS: the "required" list of each tool
SchemaRequired ==
  [ search_flights |-> {"origin", "destination", "departure_date", "adults"},
    get_flight_pricing |-> {"flight_offer_id"},
    search_hotels |-> {"check_in", "check_out", "adults"},
    check_hotel_availability |-> {"hotel_id", "check_in", "check_out"},
    estimate_total_cost |-> {"flight_price", "hotel_price", "currency"},
    book_flight |-> {"flight_offer_id", "passengers"},
    book_hotel |-> {"hotel_offer_id", "guests"},
    plan_destination |-> {"destination"},
    get_attractions |-> {"destination"} ]

\* A value of tag v has the declared JSON type t
Conforms(v, t) ==
  CASE t = "string" -> PyType(v) = "str"
    [] t \in {"integer", "number"} -> PyType(v) = "int"
    [] t = "boolean" -> PyType(v) = "bool"
    [] t = "object" -> v = "dict"
    [] t = "array of object" -> v = "dicts"
    [] t = "array of string" -> v = "strs"

\* The payload fails the structural validation of tool f: it is no object,
\* lacks a required field, or gives a declared field a value of another type
FailsValidation(f, payload) ==
  \/ payload.type # "dict"
  \/ SchemaRequired[f] \ DOMAIN payload.items # {}
  \/ \E p \in DOMAIN payload.items \cap DOMAIN ParamTypes[f] :
       ~Conforms(payload.items[p], ParamTypes[f][p])

\* A well-formed payload for each tool
ValidArgs ==
  [ search_flights |-> [origin |-> "str", destination |-> "str",
                        departure_date |-> "date", adults |-> "int"],
    get_flight_pricing |-> [flight_offer_id |-> "str"],
    book_flight |-> [flight_offer_id |-> "str", passengers |-> "dicts"],
    search_hotels |-> [check_in |-> "date", check_out |-> "date",
                       adults |-> "int"],
    check_hotel_availability |-> [hotel_id |-> "str", check_in |-> "date",
                                  check_out |-> "date"],
    book_hotel |-> [hotel_offer_id |-> "str", guests |-> "dicts"],
    estimate_total_cost |-> [flight_price |-> "int", hotel_price |-> "int",
                             currency |-> "str"],
    plan_destination |-> [destination |-> "str"],
    get_attractions |-> [destination |-> "str"] ]

Without(d, k) == [x \in DOMAIN d \ {k} |-> d[x]]

\* The payloads tried on tool f: the well-formed one with one parameter
\* changed, dropped or added
Payloads(f) ==
  LET v == ValidArgs[f]
  IN {v}
     \cup {Put(v, p, t) : p \in DOMAIN ParamTypes[f], t \in Tags}
     \cup {Without(v, p) : p \in DOMAIN v}
     \cup {Put(v, "children", "int")}

\* Payloads tried on every tool name
CommonArguments ==
  { JDict(<<>>), JOther("list", {}), JOther("NoneType", {}),
    JDict(ValidArgs.search_flights) }

ExecNames == DOMAIN function_map \cup {"json", "book_flights"}

ExecArguments(name) ==
  CommonArguments
  \cup (IF name \in DOMAIN function_map
        THEN {JDict(d) : d \in Payloads(name)} ELSE {})

ExecInit ==
  /\ messages = <<>>
  /\ dry_run_mode \in BOOLEAN
  /\ env \in Envs
  /\ pc = "idle"
  /\ iteration = 0
  /\ all_tool_results = <<>>
  /\ message = NoMessage
  /\ tc_index = 0
  /\ func_name = None
  /\ arguments = NoArguments
  /\ response = NoResponse
  /\ raised = "none"
  /\ model_calls = 0
  /\ create_kwargs = NoCall
  /\ pending = NoPending
  /\ invoked = <<>>
  /\ requests = 0
  /\ deviations = 0
  /\ next_id = 1
  /\ tools = TOOL_SCHEMAS
  /\ audit = <<>>
  /\ \E n \in ExecNames : \E a \in ExecArguments(n) :
       ex = [phase |-> "input", tool_name |-> n, arguments |-> a]

\* result = self._execute_tool(tool_name, arguments)
ExecApply ==
  /\ ex.phase = "input"
  /\ \E o \in execute_tool(ex.tool_name, ex.arguments, dry_run_mode, env) :
       /\ ex' = [phase |-> "output", tool_name |-> ex.tool_name,
                 arguments |-> ex.arguments, out |-> o]
       /\ audit' = audit \o o.logs
  /\ UNCHANGED << messages, dry_run_mode, tools, env, pc, iteration,
                  all_tool_results, message, tc_index, func_name, arguments,
                  response, raised, model_calls, create_kwargs, pending, invoked,
                  requests, deviations, next_id >>

ExecNext == ExecApply

SpecExec == ExecInit /\ [][ExecNext]_vars


\* ------------------------------------------------- two conversations
\* Two TravelAgent instances in one process, each with its own Config. The
\* variables of one agent and of its process_request call in progress are
\* those of the conversation that is running; ex.parked holds those of the
\* other conversation while its thread is suspended. env, tools and audit
\* belong to the process and are shared.
Conversations == {"A", "B"}

TwoInputs ==
  [A |-> "Search flights from MAA to SIN for 2 adults on 2025-02-01",
   B |-> "Plan 3 days in Singapore"]

\* Iterations in which the model requests tools in the runs of two
\* conversations; it gives its final answer after them
MaxToolIterations == 1

\* Context switches in a run of two conversations
MaxSwitches == 2

\* The state of the running conversation
Running ==
  [messages |-> messages, dry_run_mode |-> dry_run_mode, pc |-> pc,
   iteration |-> iteration, all_tool_results |-> all_tool_results,
   message |-> message, tc_index |-> tc_index, func_name |-> func_name,
   arguments |-> arguments, response |-> response, raised |-> raised,
   model_calls |-> model_calls, create_kwargs |-> create_kwargs, pending |-> pending,
   invoked |-> invoked]

TwoInit ==
  /\ messages = <<>>
  /\ dry_run_mode \in BOOLEAN
  /\ env = NoKeys
  /\ pc = "idle"
  /\ iteration = 0
  /\ all_tool_results = <<>>
  /\ message = NoMessage
  /\ tc_index = 0
  /\ func_name = None
  /\ arguments = NoArguments
  /\ response = NoResponse
  /\ raised = "none"
  /\ model_calls = 0
  /\ create_kwargs = NoCall
  /\ pending = NoPending
  /\ invoked = <<>>
  /\ requests = 0
  /\ deviations = 0
  /\ next_id = 1
  /\ tools = TOOL_SCHEMAS
  /\ audit = <<>>
  /\ ex = [phase |-> "two", running |-> "A", switches |-> 0,
           parked |-> [Running EXCEPT !.dry_run_mode = ~dry_run_mode]]

\* Variant of the context switch for a transcript kept in a class attribute,
\* which all instances share
SwitchSharedTranscript ==
  /\ ex.switches < MaxSwitches
  /\ messages' = messages
  /\ dry_run_mode' = ex.parked.dry_run_mode
  /\ pc' = ex.parked.pc
  /\ iteration' = ex.parked.iteration
  /\ all_tool_results' = ex.parked.all_tool_results
  /\ message' = ex.parked.message
  /\ tc_index' = ex.parked.tc_index
  /\ func_name' = ex.parked.func_name
  /\ arguments' = ex.parked.arguments
  /\ response' = ex.parked.response
  /\ raised' = ex.parked.raised
  /\ model_calls' = ex.parked.model_calls
  /\ create_kwargs' = ex.parked.create_kwargs
  /\ pending' = ex.parked.pending
  /\ invoked' = ex.parked.invoked
  /\ ex' = [phase |-> "two", switches |-> ex.switches + 1,
            running |-> CHOOSE c \in Conversations : c # ex.running,
            parked |-> [Running EXCEPT !.messages = messages']]
  /\ UNCHANGED << env, tools, audit, requests, deviations, next_id >>

\* The thread of the running conversation is suspended and the other one
\* goes on: self and the locals are now those of the other conversation
Switch ==
  /\ ex.switches < MaxSwitches
  /\ messages' = ex.parked.messages
  /\ dry_run_mode' = ex.parked.dry_run_mode
  /\ pc' = ex.parked.pc
  /\ iteration' = ex.parked.iteration
  /\ all_tool_results' = ex.parked.all_tool_results
  /\ message' = ex.parked.message
  /\ tc_index' = ex.parked.tc_index
  /\ func_name' = ex.parked.func_name
  /\ arguments' = ex.parked.arguments
  /\ response' = ex.parked.response
  /\ raised' = ex.parked.raised
  /\ model_calls' = ex.parked.model_calls
  /\ create_kwargs' = ex.parked.create_kwargs
  /\ pending' = ex.parked.pending
  /\ invoked' = ex.parked.invoked
  /\ ex' = [phase |-> "two", switches |-> ex.switches + 1,
            running |-> CHOOSE c \in Conversations : c # ex.running,
            parked |-> Running]
  /\ UNCHANGED << env, tools, audit, requests, deviations, next_id >>

TwoNext ==
  \/ StartRequest(TwoInputs[ex.running])
  \/ LogDecision
  \/ ModelQuery
  \/ \E e \in ApiErrors : ModelFails(e)
  \/ LogError
  \/ ReturnError
  \/ /\ iteration <= MaxToolIterations
     /\ ModelRequestsTools(DefaultBatch(iteration))
  \/ ToolParse
  \/ ToolDispatch
  \/ ToolCall
  \/ ToolLog
  \/ ToolReturn
  \/ \E c \in {ContentText, ContentNumber} :
       /\ iteration > MaxToolIterations
       /\ deviations' = deviations
       /\ FinalAnswer(c)
  \/ ResetConversation
  \/ Switch

SpecTwo == TwoInit /\ [][TwoNext]_vars

\* ------------------------------------------- concurrent audit appends
\* AuditLogger.log called by the threads of several conversations on the one
\* logger of the process. ex.file is the content of the log file as a
\* sequence of pieces of text: the JSON text of a record, or a newline. For
\* each writer ex.writers holds where it is in log; audit is what a reader
\* of the file gets.
MaxLogCalls == 2

SinkFunctions == {"_agent_decision", "search_flights"}

IdleWriter == [pc |-> "idle", entry |-> LogEntry(None, <<>>, TRUE),
               long |-> FALSE, audit_id |-> <<>>, pos |-> 0, buffer |-> <<>>,
               calls |-> 0]

\* json.dumps(log_entry) + "\n"
Line(audit_id, entry) ==
  << [text |-> "record", audit_id |-> audit_id, entry |-> entry],
     [text |-> "newline", audit_id |-> audit_id, entry |-> entry] >>

\* The records of the lines of the file that hold one whole record
RECURSIVE ReadBack(_)
ReadBack(file) ==
  IF Len(file) < 2 THEN <<>>
  ELSE IF /\ file[1].text = "record"
          /\ file[2].text = "newline"
          /\ file[2].audit_id = file[1].audit_id
       THEN << file[1].entry >> \o ReadBack(SubSeq(file, 3, Len(file)))
       ELSE ReadBack(Tail(file))

\* write(2) of data at offset pos of the file
WriteAt(file, pos, data) ==
  [i \in 1..(IF pos + Len(data) > Len(file) THEN pos + Len(data)
             ELSE Len(file)) |->
     IF i > pos /\ i <= pos + Len(data) THEN data[i - pos] ELSE file[i]]

SinkInit ==
  /\ messages = <<>>
  /\ dry_run_mode = FALSE
  /\ env = NoKeys
  /\ pc = "idle"
  /\ iteration = 0
  /\ all_tool_results = <<>>
  /\ message = NoMessage
  /\ tc_index = 0
  /\ func_name = None
  /\ arguments = NoArguments
  /\ response = NoResponse
  /\ raised = "none"
  /\ model_calls = 0
  /\ create_kwargs = NoCall
  /\ pending = NoPending
  /\ invoked = <<>>
  /\ requests = 0
  /\ deviations = 0
  /\ next_id = 1
  /\ tools = TOOL_SCHEMAS
  /\ audit = <<>>
  /\ ex = [phase |-> "sink", file |-> <<>>, returned |-> <<>>,
           writers |-> [w \in Conversations |-> IdleWriter]]

SinkFrame ==
  UNCHANGED << messages, dry_run_mode, env, pc, iteration, all_tool_results,
               message, tc_index, func_name, arguments, response, raised,
               model_calls, create_kwargs, pending, invoked, requests, deviations, next_id, tools >>

\* logger.py lines 44-54: the audit id and the log entry; long says that
\* the line is longer than the buffer of a file object
LogCompose(w, function_name, long) ==
  /\ ex.writers[w].pc = "idle"
  /\ ex.writers[w].calls < MaxLogCalls
  /\ ex' = [ex EXCEPT !.writers[w].pc = "composed",
                      !.writers[w].audit_id = << w, ex.writers[w].calls + 1 >>,
                      !.writers[w].long = long,
                      !.writers[w].entry =
                         LogEntry(function_name, <<>>, TRUE)]
  /\ audit' = audit
  /\ SinkFrame

\* line 57: open(self.log_file, "a"); the new file object stands at the end
\* of the file
LogOpen(w) ==
  /\ ex.writers[w].pc = "composed"
  /\ ex' = [ex EXCEPT !.writers[w].pc = "opened",
                      !.writers[w].pos = Len(ex.file)]
  /\ audit' = audit
  /\ SinkFrame

\* line 58: f.write(...) puts the whole line into the buffer of f; a line
\* longer than the buffer goes to the file at once, by one write on the
\* file opened with O_APPEND, which puts it at the end of the file
LogWrite(w) ==
  /\ ex.writers[w].pc = "opened"
  /\ LET line == Line(ex.writers[w].audit_id, ex.writers[w].entry)
     IN IF ex.writers[w].long
        THEN ex' = [ex EXCEPT !.file = WriteAt(ex.file, Len(ex.file), line),
                              !.writers[w].pc = "written"]
        ELSE ex' = [ex EXCEPT !.writers[w].pc = "written",
                              !.writers[w].buffer = line]
  /\ audit' = ReadBack(ex'.file)
  /\ SinkFrame

\* Variant of the flush for a file that was not opened in append mode: the
\* buffer goes to the offset the file object stands at
LogCloseAtOffset(w) ==
  /\ ex.writers[w].pc = "written"
  /\ ex' = [ex EXCEPT !.file = WriteAt(ex.file, ex.writers[w].pos,
                                       ex.writers[w].buffer),
                      !.writers[w].pc = "closed",
                      !.writers[w].buffer = <<>>]
  /\ audit' = ReadBack(ex'.file)
  /\ SinkFrame

\* end of the with block, lines 57-58: what is in the buffer is flushed by
\* one write on the file opened with O_APPEND, which puts it at the end of
\* the file, and the file is closed
LogClose(w) ==
  /\ ex.writers[w].pc = "written"
  /\ ex' = [ex EXCEPT !.file = WriteAt(ex.file, Len(ex.file),
                                       ex.writers[w].buffer),
                      !.writers[w].pc = "closed",
                      !.writers[w].buffer = <<>>]
  /\ audit' = ReadBack(ex'.file)
  /\ SinkFrame

\* line 60: return audit_id
LogReturn(w) ==
  /\ ex.writers[w].pc = "closed"
  /\ ex' = [ex EXCEPT !.returned = Append(@, ex.writers[w].audit_id),
                      !.writers[w].pc = "idle",
                      !.writers[w].calls = @ + 1]
  /\ audit' = audit
  /\ SinkFrame

SinkNext ==
  \E w \in Conversations :
    \/ \E f \in SinkFunctions : \E long \in BOOLEAN : LogCompose(w, f, long)
    \/ LogOpen(w)
    \/ LogWrite(w)
    \/ LogClose(w)
    \/ LogReturn(w)

SpecSink == SinkInit /\ [][SinkNext]_vars

\* --------------------------------------------- the transcript of a request
\* Position of the last user turn of transcript ms, 0 when there is none
LastUser(ms) ==
  IF \E i \in 1..Len(ms) : ms[i].role = "user"
  THEN CHOOSE i \in 1..Len(ms) :
         /\ ms[i].role = "user"
         /\ \A j \in (i + 1)..Len(ms) : ms[j].role # "user"
  ELSE 0

\* The turns the request in progress (or the last one) has appended
RequestTurns(ms) == SubSeq(ms, LastUser(ms) + 1, Len(ms))

\* An assistant turn that requests tool invocations
HasToolCalls(t) == t.role = "assistant" /\ "tool_calls" \in DOMAIN t

\* The invocations requested by a sequence of turns, in request order
RECURSIVE Requested(_)
Requested(turns) ==
  IF Len(turns) = 0 THEN <<>>
  ELSE (IF HasToolCalls(Head(turns)) THEN Head(turns).tool_calls ELSE <<>>)
       \o Requested(Tail(turns))

\* Number of model responses of this request that requested tools
ToolResponses ==
  Cardinality({i \in 1..Len(RequestTurns(messages)) :
                 HasToolCalls(RequestTurns(messages)[i])})

\* The arguments the loop passes on for the argument text of a tool call
ArgumentsOf(text) ==
  IF JsonLoads(text).exc = "none" THEN JsonLoads(text).value ELSE JDict(<<>>)

\* The step in which the tool execution in progress ends
ToolEnds == pc = "tool_body" /\ pc' # "tool_body"

\* A step of a tool execution that does not end it
ToolRuns == pc = "tool_call" \/ (pc = "tool_body" /\ pc' = "tool_body")

\* The request ended by returning a value
HasReturned == pc \in {"done", "aborted"}

\* ------------------------------------------------------------------ claims
\* C1: within one process_request the model is called at most 10 times; a
\* request that ran out of iterations made exactly 10 model calls and
\* returned success=false with the iteration-cap error; and a request in
\* which every model response requested tools ended that way.
C1_IterationCap ==
  /\ model_calls <= max_iterations
  /\ pc = "aborted" =>
       /\ model_calls = max_iterations
       /\ response.returned
       /\ response.value.type = "dict"
       /\ response.value.items.success = FALSE
       /\ response.value.items.error = "Maximum iterations reached"
  /\ (pc \in {"done", "aborted", "raised"} /\ ToolResponses = model_calls)
       => (pc = "aborted" /\ model_calls = max_iterations)

C1_Witness ==
  /\ pc = "aborted"
  /\ ToolResponses = max_iterations
  /\ model_calls = max_iterations

\* C2: the envelope returned on iteration exhaustion carries one record for
\* every tool invocation the request attempted, in execution order, and its
\* error differs from the error of every model-failure envelope.
C2_AbortedResults ==
  pc = "aborted" =>
    LET calls == Requested(RequestTurns(messages))
        recs == response.value.items.tool_results
    IN /\ Len(recs) = Len(calls)
       /\ \A i \in 1..Len(calls) :
            /\ recs[i].function = calls[i].function.name
            /\ recs[i].arguments = ArgumentsOf(calls[i].function.arguments)
       /\ \A e \in ApiErrors :
            response.value.items.error
              # ApiErrorResponse(e, recs).items.error

C2_Witness ==
  /\ pc = "aborted"
  /\ Len(response.value.items.tool_results) >= 15
  /\ response.value.items.tool_results[2].function = "json"
  /\ response.value.items.tool_results[3].function = "get_flight_pricing"

\* The model call and the tool execution in progress come to an end, and
\* the loop takes its next step
ModelAnswers ==
  \/ \E e \in ApiErrors : ModelFails(e)
  \/ \E b \in {DefaultBatch(iteration)} \cup DeviationBatches :
       ModelRequestsTools(b)
  \/ \E c \in FinalContents : ModelFinal(c)

LiveSpec ==
  /\ Spec
  /\ WF_vars(LogDecision)
  /\ WF_vars(ModelQuery)
  /\ WF_vars(MaxIterationsReached)
  /\ WF_vars(ModelAnswers)
  /\ WF_vars(ToolParse)
  /\ WF_vars(ToolDispatch)
  /\ WF_vars(ToolCall)
  /\ WF_vars(ToolLog)
  /\ WF_vars(ToolReturn)
  /\ WF_vars(LogError)
  /\ WF_vars(ReturnError)

\* C3: every process_request eventually returns, in DONE or ABORTED, when
\* every model call and every tool execution comes to an end.
C3_EventuallyReturns == (pc \notin Ended) ~> HasReturned

\* C4: whenever the model is about to be queried or a request has ended,
\* every assistant turn with N requested invocations is followed by exactly
\* N tool turns whose tool_call_id are the requested ids in the same order,
\* and there is no other tool turn.
C4_Correlation ==
  pc \in Ended \cup {"log_decision", "await_model", "model_call",
                     "log_error", "error_logged"} =>
    /\ \A i \in 1..Len(messages) :
         HasToolCalls(messages[i]) =>
           LET n == Len(messages[i].tool_calls)
           IN /\ i + n <= Len(messages)
              /\ \A k \in 1..n :
                   /\ messages[i + k].role = "tool"
                   /\ messages[i + k].tool_call_id
                        = messages[i].tool_calls[k].id
              /\ i + n < Len(messages) => messages[i + n + 1].role # "tool"
    /\ \A i \in 1..Len(messages) :
         messages[i].role = "tool" =>
           \E j \in 1..(i - 1) :
             /\ HasToolCalls(messages[j])
             /\ i - j <= Len(messages[j].tool_calls)

C4_Witness ==
  /\ pc \in {"done", "aborted"}
  /\ requests = 2
  /\ \E i \in 1..Len(messages) :
       HasToolCalls(messages[i]) /\ Len(messages[i].tool_calls) >= 3
  /\ \E i \in 1..Len(messages) :
       HasToolCalls(messages[i]) /\ Len(messages[i].tool_calls) = 2

\* C5: a model query starts only when every invocation requested so far has
\* been executed; an invocation starts only when no model call and no other
\* invocation is in progress, and it is the first unexecuted one of the
\* batch; each execution adds the record and the tool turn of that one.
C5_OneAtATime ==
  [][ LET calls == Requested(RequestTurns(messages))
          done == Len(all_tool_results)
      IN /\ (pc' = "model_call" /\ pc # "model_call") =>
              /\ pc = "await_model"
              /\ done = Len(calls)
              /\ model_calls' = model_calls + 1
         /\ model_calls' > model_calls => pc' = "model_call"
         /\ pc' = "tool_call" =>
              /\ pc = "log_dispatch"
              /\ done < Len(calls)
              /\ func_name' = calls[done + 1].function.name
              /\ message.tool_calls[tc_index].id = calls[done + 1].id
         /\ Len(all_tool_results') > done =>
              /\ pc = "tool_body"
              /\ Len(all_tool_results') = done + 1
              /\ all_tool_results'[done + 1].function
                   = calls[done + 1].function.name
              /\ messages'[Len(messages')].role = "tool"
              /\ messages'[Len(messages')].tool_call_id = calls[done + 1].id
    ]_vars

C5_Witness ==
  /\ pc = "model_call"
  /\ Len(message.tool_calls) = 5
  /\ tc_index = 5
  /\ Len(all_tool_results) >= 5

\* C6: every request returns one structured envelope and never raises.
C6_NeverRaises ==
  /\ pc # "raised"
  /\ raised = "none"
  /\ HasReturned =>
       /\ response.returned
       /\ response.value.type = "dict"
       /\ "success" \in DOMAIN response.value.items

\* The final content 42 made the request raise TypeError
C6_Raised ==
  /\ pc = "raised"
  /\ raised = "TypeError"
  /\ message.content = ContentNumber
  /\ ~response.returned

\* C7: _execute_tool never raises: for every tool name and arguments value
\* the call ends by returning a result that tells success from failure.
C7_ExecuteNeverRaises ==
  ex.phase = "output" =>
    /\ ex.out.exc = "none"
    /\ "success" \in DOMAIN ex.out.result

C7_Witness ==
  /\ ex.phase = "output"
  /\ ex.out.caught.exc = "ValueError"
  /\ ex.out.result.success = FALSE
  /\ ex.out.result.error
       = "Function execution failed: time data does not match format '%Y-%m-%d'"

\* The result _execute_tool gives for a name that is not in function_map
UnknownFunction(name) ==
  [success |-> FALSE, error |-> "Unknown function: " \o name]

\* C8: the execution of a requested name that is not in function_map calls
\* no capability, yields success=false "Unknown function: <name>", appends
\* the record and the tool turn with the call's id, and the loop goes on to
\* the next call of the batch or, after the last one, to the model.
C8_UnknownFunction ==
  [][ /\ (pc = "tool_call" /\ func_name \notin DOMAIN function_map) =>
           /\ pc' = "tool_body"
           /\ pending'.out.logs = <<>>
           /\ UNCHANGED << invoked, audit, messages, all_tool_results >>
      /\ (pc = "tool_body" /\ func_name \notin DOMAIN function_map) =>
        /\ UNCHANGED << invoked, audit >>
        /\ all_tool_results' =
             Append(all_tool_results,
                    [function |-> func_name, arguments |-> arguments,
                     result |-> UnknownFunction(func_name)])
        /\ messages' =
             Append(messages,
                    [role |-> "tool",
                     tool_call_id |-> message.tool_calls[tc_index].id,
                     content |-> JsonDumps(UnknownFunction(func_name))])
        /\ IF tc_index < Len(message.tool_calls)
           THEN pc' = "execute_tools" /\ tc_index' = tc_index + 1
           ELSE pc' = "await_model"
    ]_vars

C8_Witness ==
  /\ pc = "model_call"
  /\ model_calls >= 3
  /\ Len(all_tool_results) >= 3
  /\ all_tool_results[2].result = UnknownFunction("json")
  /\ all_tool_results[3].function = "get_flight_pricing"
  /\ all_tool_results[3].result.success = TRUE

\* C9: for every payload that fails the structural validation against the
\* tool's declared parameters, the result is success=false with an
\* "Invalid arguments for <name>" error.
C9_InvalidArguments ==
  (/\ ex.phase = "output"
   /\ ex.tool_name \in DOMAIN function_map
   /\ FailsValidation(ex.tool_name, ex.arguments)) =>
     /\ ex.out.exc = "none"
     /\ ex.out.result.success = FALSE
     /\ ex.out.caught.exc = "TypeError"
     /\ ex.out.result.error
          = "Invalid arguments for " \o ex.tool_name \o ": "
            \o ex.out.caught.msg

\* A payload with a value of the wrong type was executed with success
C9_WrongTypeAccepted ==
  /\ ex.phase = "output"
  /\ ex.tool_name = "get_flight_pricing"
  /\ ex.arguments.items = [flight_offer_id |-> "int"]
  /\ ex.out.result.success = TRUE

\* A well-formed call reaches the inference service of plan_destination or
\* get_attractions, and the service fails
InferenceFails ==
  /\ ex.tool_name \in {"plan_destination", "get_attractions"}
  /\ env.hf = "fails"
  /\ ex.arguments.type = "dict"
  /\ ~FailsValidation(ex.tool_name, ex.arguments)
  /\ BindExc(ex.tool_name, ex.arguments.items).exc = "none"

\* The flight or hotel provider is configured, a well-formed search reaches
\* it, and the request to it fails
ProviderFails ==
  /\ ex.arguments.type = "dict"
  /\ ~FailsValidation(ex.tool_name, ex.arguments)
  /\ BindExc(ex.tool_name, ex.arguments.items).exc = "none"
  /\ \/ /\ ex.tool_name = "search_flights"
        /\ env.flight_api \in {"raises", "fails"}
     \/ /\ ex.tool_name = "search_hotels"
        /\ env.search_api \in {"raises", "fails"}
        /\ "city_code" \in DOMAIN ex.arguments.items
        /\ ex.arguments.items.city_code = "str"

\* The exception the except clauses of _execute_tool caught is one that the
\* call of the bound capability raised
CaughtWasRaised ==
  \E o \in Invoke(function_map[ex.tool_name], ex.arguments, dry_run_mode,
                  env) :
    o.exc = ex.out.caught.exc /\ o.msg = ex.out.caught.msg

\* The result reports the caught exception as a failed execution
ReportsExecutionFailure ==
  /\ ex.out.exc = "none"
  /\ ex.out.caught.exc \notin {"none", "TypeError"}
  /\ ex.out.result
       = [success |-> FALSE,
          error |-> "Function execution failed: " \o ex.out.caught.msg]

\* C10 as stated: any failure of a bound capability other than an
\* argument-shape mismatch, downstream I/O failures included, comes out of
\* the executor as success=false "Function execution failed: <detail>".
C10_AnyFailureConverted ==
  (/\ ex.phase = "output"
   /\ ex.tool_name \in DOMAIN function_map
   /\ \/ InferenceFails
      \/ ProviderFails
      \/ ex.out.caught.exc \notin {"none", "TypeError"}) =>
     ReportsExecutionFailure

\* C10: every exception other than TypeError that the call of a bound
\* capability raises comes out of the executor as success=false "Function
\* execution failed: <detail>" and never propagates; a downstream failure
\* the capability handles itself raises nothing, and the executor returns
\* the capability's own result for it.
C10_RaisedFailureConverted ==
  (ex.phase = "output" /\ ex.tool_name \in DOMAIN function_map) =>
     /\ ex.out.exc = "none"
     /\ ex.out.caught.exc # "none" => CaughtWasRaised
     /\ ex.out.caught.exc \notin {"none", "TypeError"} =>
          ReportsExecutionFailure
     /\ ex.out.caught.exc = "none" =>
          ex.out.result \in
            { o.result :
                o \in {r \in Invoke(function_map[ex.tool_name], ex.arguments,
                                    dry_run_mode, env) : r.exc = "none"} }
     /\ InferenceFails =>
          /\ ex.out.caught.exc = "none"
          /\ ex.out.result.success = FALSE
     /\ (ProviderFails /\ ex.out.caught.exc = "none") =>
          /\ ex.out.result.success = TRUE
          /\ ex.out.result.source = "mock"

C10_Witness ==
  /\ ex.phase = "output"
  /\ ex.tool_name = "book_flight"
  /\ ex.out.caught.exc = "AttributeError"
  /\ ReportsExecutionFailure

\* The result of a finished invocation is one of a failed invocation
Failed(result) == result.success = FALSE

\* C11: the execution of an invocation, failed or not, adds exactly its
\* record to tool_results and its tool turn to the transcript; a failed one
\* ends neither the batch nor the request: the loop goes on to the next
\* invocation of the batch or, after the last one, to the next iteration.
C11_FailureIsolation ==
  [][ /\ ToolRuns =>
           /\ pc' = "tool_body"
           /\ UNCHANGED << all_tool_results, messages, tc_index, response,
                           raised >>
      /\ ToolEnds =>
        /\ Len(all_tool_results') = Len(all_tool_results) + 1
        /\ SubSeq(all_tool_results', 1, Len(all_tool_results))
             = all_tool_results
        /\ LET rec == all_tool_results'[Len(all_tool_results')]
           IN /\ rec.function = func_name
              /\ rec.arguments = arguments
              /\ \E o \in execute_tool(func_name, arguments, dry_run_mode,
                                       env) :
                   o.exc = "none" /\ o.result = rec.result
              /\ messages' =
                   Append(messages,
                          [role |-> "tool",
                           tool_call_id |-> message.tool_calls[tc_index].id,
                           content |-> JsonDumps(rec.result)])
              /\ Failed(rec.result) =>
                   IF tc_index < Len(message.tool_calls)
                   THEN pc' = "execute_tools" /\ tc_index' = tc_index + 1
                   ELSE pc' = "await_model"
        /\ response' = response
        /\ raised' = raised
    ]_vars

\* A batch with failures at its first three positions and its last one was
\* executed to its end, a later invocation of it succeeded, and the model
\* has been queried again
C11_Witness ==
  /\ pc = "model_call"
  /\ Len(message.tool_calls) = 5
  /\ \E i \in 1..Len(all_tool_results) :
       /\ i + 4 <= Len(all_tool_results)
       /\ all_tool_results[i].result.error
            = "Function execution failed: time data does not match format '%Y-%m-%d'"
       /\ Failed(all_tool_results[i + 1].result)
       /\ Failed(all_tool_results[i + 2].result)
       /\ all_tool_results[i + 3].result.success = TRUE
       /\ all_tool_results[i + 4].result.error
            = "Unknown function: book_flights"

\* json.loads cannot parse the text
Unparsable(text) == JsonLoads(text).exc = "JSONDecodeError"

\* C12: a requested invocation whose argument text cannot be parsed is
\* dispatched to the executor with the empty mapping; its record with empty
\* arguments and its tool turn with the call's id are appended, and the
\* request goes on.
C12_UnparsableArguments ==
  [][ LET tool_call == message.tool_calls[tc_index]
      IN /\ (pc = "execute_tools" /\ Unparsable(tool_call.arguments)) =>
              /\ pc' = "log_dispatch"
              /\ func_name' = tool_call.name
              /\ arguments' = JDict(<<>>)
              /\ UNCHANGED << messages, all_tool_results, response, raised >>
         /\ (pc = "log_dispatch" /\ Unparsable(tool_call.arguments)) =>
              /\ pc' = "tool_call"
              /\ UNCHANGED << func_name, arguments, messages,
                              all_tool_results, response, raised >>
         /\ (ToolRuns /\ Unparsable(tool_call.arguments)) =>
              /\ pc' = "tool_body"
              /\ UNCHANGED << messages, all_tool_results, response, raised >>
         /\ (ToolEnds /\ Unparsable(tool_call.arguments)) =>
              /\ \E o \in execute_tool(tool_call.name, JDict(<<>>),
                                       dry_run_mode, env) :
                   /\ o.exc = "none"
                   /\ all_tool_results' =
                        Append(all_tool_results,
                               [function |-> tool_call.name,
                                arguments |-> JDict(<<>>),
                                result |-> o.result])
                   /\ messages' =
                        Append(messages,
                               [role |-> "tool",
                                tool_call_id |-> tool_call.id,
                                content |-> JsonDumps(o.result)])
              /\ pc' \in {"execute_tools", "await_model"}
              /\ UNCHANGED << response, raised >>
    ]_vars

C12_Witness ==
  /\ pc = "model_call"
  /\ Len(message.tool_calls) = 3
  /\ message.tool_calls[2].arguments = ArgsMalformed
  /\ \E i \in 2..Len(all_tool_results) :
       /\ i < Len(all_tool_results)
       /\ all_tool_results[i].function = "book_hotel"
       /\ all_tool_results[i].arguments = JDict(<<>>)
       /\ Failed(all_tool_results[i].result)
       /\ all_tool_results[i + 1].function = "search_hotels"
       /\ messages[Len(messages) - 1].role = "tool"
       /\ messages[Len(messages) - 1].tool_call_id = message.tool_calls[2].id

\* The step in which a model call ends without a response: nothing was
\* appended to the transcript
ModelCallFailed ==
  pc = "model_call" /\ pc' = "log_error" /\ messages' = messages

\* C13: a model call that fails at any iteration makes the request return
\* success=false, an error describing the API failure and the records of
\* the earlier iterations (none at iteration 1); between the failure and the
\* return the request only writes its error record: it makes no further
\* model call and executes no further tool.
C13_ModelCallFailure ==
  [][ /\ ModelCallFailed =>
           /\ \E e \in ApiErrors :
                pending'.error_result
                  = JDict([success |-> FALSE,
                           error |-> "LLM API error: " \o e,
                           tool_results |-> all_tool_results])
           /\ Len(all_tool_results) = Len(Requested(RequestTurns(messages)))
           /\ iteration = 1 => all_tool_results = <<>>
           /\ UNCHANGED << iteration, model_calls, invoked,
                           all_tool_results, response >>
      /\ pc = "log_error" =>
           /\ pc' = "error_logged"
           /\ UNCHANGED << iteration, model_calls, invoked,
                           all_tool_results, response, pending, messages >>
      /\ pc = "error_logged" =>
           /\ pc' = "done"
           /\ response' = Returned(pending.error_result)
           /\ UNCHANGED << iteration, model_calls, invoked,
                           all_tool_results, messages >>
      /\ pc = "done" =>
           /\ pc' \in {"log_decision", "idle"}
           /\ model_calls' = 0
           /\ invoked' = <<>>
    ]_vars

\* The tenth model call of a request failed after nine iterations of tools
C13_Witness ==
  /\ pc = "done"
  /\ iteration = max_iterations
  /\ model_calls = max_iterations
  /\ response.value.type = "dict"
  /\ "error" \in DOMAIN response.value.items
  /\ response.value.items.error = "LLM API error: Connection error."
  /\ response.value.items.success = FALSE
  /\ Len(response.value.items.tool_results) = 13

\* The value is the envelope of a failed model call
IsApiErrorEnvelope(v) ==
  /\ v.type = "dict"
  /\ "error" \in DOMAIN v.items
  /\ \E e \in ApiErrors : v.items.error = "LLM API error: " \o e

\* C14: the steps in which a model call fails and the request returns the
\* envelope of the failure leave the transcript as it was before the call:
\* the user turn and the assistant and tool turns of the request stay,
\* nothing is appended, removed or altered.
C14_FailureKeepsTranscript ==
  [][ (\/ pc = "model_call" /\ pc' = "log_error"
       \/ pc = "log_error"
       \/ /\ pc = "error_logged"
          /\ response'.returned
          /\ IsApiErrorEnvelope(response'.value)) =>
        /\ messages' = messages
        /\ LastUser(messages') > 0
        /\ Len(RequestTurns(messages'))
             = ToolResponses + Len(all_tool_results)
    ]_vars

\* A model call failed in the second iteration: the transcript still holds
\* the request's user turn, its assistant turn and its tool turn
C14_Witness ==
  /\ pc = "done"
  /\ response.returned
  /\ IsApiErrorEnvelope(response.value)
  /\ iteration = 2
  /\ LastUser(messages) > 0
  /\ Len(RequestTurns(messages)) = 2
  /\ HasToolCalls(RequestTurns(messages)[1])
  /\ RequestTurns(messages)[2].role = "tool"

\* ------------------------------------------ the final branch on its own
\* message.content of the zero-tool responses tried
FinalInputContents ==
  { None, "", ContentText, ContentMessage, ContentFailure,
    ContentWithResults, ContentNumber, ContentList, ContentString }

\* Records as the loop appends them
SampleRecords ==
  { [function |-> "search_flights",
     arguments |-> JDict(ValidArgs.search_flights),
     result |-> [success |-> TRUE, source |-> "mock"]],
    [function |-> "json", arguments |-> JDict(<<>>),
     result |-> [success |-> FALSE, error |-> "Unknown function: json"]] }

\* all_tool_results at the time of the final response
RecordLists == UNION { [1..n -> SampleRecords] : n \in 0..MaxRecords }

FinalInit ==
  /\ messages = <<>>
  /\ dry_run_mode = FALSE
  /\ env = NoKeys
  /\ pc = "idle"
  /\ iteration = 0
  /\ all_tool_results = <<>>
  /\ message = NoMessage
  /\ tc_index = 0
  /\ func_name = None
  /\ arguments = NoArguments
  /\ response = NoResponse
  /\ raised = "none"
  /\ model_calls = 0
  /\ create_kwargs = NoCall
  /\ pending = NoPending
  /\ invoked = <<>>
  /\ requests = 0
  /\ deviations = 0
  /\ next_id = 1
  /\ tools = TOOL_SCHEMAS
  /\ audit = <<>>
  /\ \E c \in FinalInputContents : \E rs \in RecordLists :
       ex = [phase |-> "input", content |-> c, records |-> rs]

\* lines 238-255: from message.content to the value about to be returned
FinalApply ==
  /\ ex.phase = "input"
  /\ ex' = [phase |-> "output", content |-> ex.content,
            records |-> ex.records,
            out |-> final_response(FinalContent(ex.content), ex.records)]
  /\ UNCHANGED << messages, dry_run_mode, tools, audit, env, pc, iteration,
                  all_tool_results, message, tc_index, func_name, arguments,
                  response, raised, model_calls, create_kwargs, pending, invoked,
                  requests, deviations, next_id >>

FinalNext == FinalApply

SpecFinal == FinalInit /\ [][FinalNext]_vars

\* The final content the branch works on
FinalText == FinalContent(ex.content)

\* The content is the text of a JSON object
IsObject(text) ==
  JsonLoads(text).exc = "none" /\ JsonLoads(text).value.type = "dict"

\* The content is the text of a JSON object that has the field
Supplies(text, field) ==
  IsObject(text) /\ field \in DOMAIN JsonLoads(text).value.items

\* C15: the structure returned for a zero-tool response always carries a
\* success flag, true unless the content supplied one, and always carries
\* tool_results, the accumulated records unless the content supplied the
\* field.
C15_AlwaysCarries ==
  (ex.phase = "output" /\ ex.out.exc = "none") =>
     /\ ex.out.value.type = "dict"
     /\ "success" \in DOMAIN ex.out.value.items
     /\ ~Supplies(FinalText, "success") => ex.out.value.items.success = TRUE
     /\ "tool_results" \in DOMAIN ex.out.value.items
     /\ ~Supplies(FinalText, "tool_results") =>
          ex.out.value.items.tool_results = ex.records

\* The content {"message": "Done"} of a request that executed no tool: the
\* structure is returned with success=true and without tool_results
C15_NoToolResults ==
  /\ ex.phase = "output"
  /\ ex.content = ContentMessage
  /\ ex.records = <<>>
  /\ ex.out.exc = "none"
  /\ ex.out.value.type = "dict"
  /\ ex.out.value.items.success = TRUE
  /\ "tool_results" \notin DOMAIN ex.out.value.items

\* C16: final content that cannot be interpreted as a structured response,
\* empty and missing content included, gives the envelope {message: content,
\* tool_results: the accumulated records, success: true}.
C16_WrappedEnvelope ==
  (ex.phase = "output" /\ ~IsObject(FinalText)) =>
     /\ ex.out.exc = "none"
     /\ ex.out.value
          = JDict([message |-> FinalText, tool_results |-> ex.records,
                   success |-> TRUE])

\* The content "Done" (a JSON string) made the branch raise TypeError
C16_StringRaises ==
  /\ ex.phase = "output"
  /\ ex.content = ContentString
  /\ ex.out.exc = "TypeError"

\* The tools that book
BookingTools == {"book_flight", "book_hotel"}

\* C17: while the dry-run flag is set, every call of book_flight and
\* book_hotel is made with dry_run forced to true, whatever dry_run value
\* the payload gave or left out; every booking that succeeds has status
\* DRY_RUN and no result has status CONFIRMED.
C17_DryRunForced ==
  (/\ ex.phase = "output"
   /\ dry_run_mode
   /\ ex.tool_name \in BookingTools) =>
     /\ ex.out.exc = "none"
     /\ \A i \in 1..Len(ex.out.calls) :
          /\ ex.out.calls[i].func = ex.tool_name
          /\ "dry_run" \in DOMAIN ex.out.calls[i].kwargs
          /\ ex.out.calls[i].kwargs.dry_run = "true"
     /\ ex.out.result.success = TRUE =>
          /\ Len(ex.out.calls) = 1
          /\ ex.out.result.status = "DRY_RUN"
     /\ "status" \in DOMAIN ex.out.result =>
          ex.out.result.status # "CONFIRMED"

\* The payload asked for dry_run=false while the flag was set, and the
\* booking came out as DRY_RUN
C17_Witness ==
  /\ ex.phase = "output"
  /\ dry_run_mode
  /\ ex.tool_name = "book_flight"
  /\ ex.arguments.type = "dict"
  /\ "dry_run" \in DOMAIN ex.arguments.items
  /\ ex.arguments.items.dry_run = "false"
  /\ ex.out.result.success = TRUE
  /\ ex.out.result.status = "DRY_RUN"
  /\ ex.out.calls[1].kwargs.dry_run = "true"

\* The record is one of an invocation that reached a tool function
ReachedTool(rec) ==
  rec.function \in DOMAIN function_map /\ rec.arguments.type = "dict"

\* C18: the arguments of every record are the mapping the tool was
\* executed with: whenever no tool execution is in progress, the k-th
\* record that reached a tool function shows the keyword arguments of the
\* k-th call made, so a booking made in dry-run mode shows dry_run=true.
C18_RecordShowsExecuted ==
  pc # "tool_body" =>
  LET reached == SelectSeq(all_tool_results, ReachedTool)
  IN /\ Len(reached) = Len(invoked)
     /\ \A k \in 1..Len(reached) :
          /\ invoked[k].func = function_map[reached[k].function]
               \/ invoked[k].func = reached[k].function
          /\ reached[k].arguments.items = invoked[k].kwargs

\* A booking without dry_run was executed with dry_run=true in dry-run
\* mode, and its record shows the arguments without dry_run
C18_RecordHidesDryRun ==
  /\ dry_run_mode
  /\ Len(all_tool_results) >= 1
  /\ Len(invoked) >= 1
  /\ all_tool_results[1].function = "book_flight"
  /\ all_tool_results[1].result.success = TRUE
  /\ all_tool_results[1].result.status = "DRY_RUN"
  /\ "dry_run" \notin DOMAIN all_tool_results[1].arguments.items
  /\ invoked[1].func = "book_flight"
  /\ invoked[1].kwargs.dry_run = "true"

IsToolTurn(t) == t.role = "tool"

\* The record buffer and the tool turns of the request agree: as many
\* records as tool turns, the i-th record being of the function of the i-th
\* requested call and holding the result the i-th tool turn carries
BufferMatches ==
  LET turns == SelectSeq(RequestTurns(messages), IsToolTurn)
      calls == Requested(RequestTurns(messages))
  IN /\ Len(all_tool_results) = Len(turns)
     /\ \A i \in 1..Len(turns) :
          /\ turns[i].tool_call_id = calls[i].id
          /\ all_tool_results[i].function = calls[i].function.name
          /\ turns[i].content = JsonDumps(all_tool_results[i].result)

\* C19: the record buffer of a request gets exactly one record per executed
\* tool call, appended at its end; it agrees with the tool turns of the
\* request at every point; and during a request no record already in it is
\* changed, moved or removed.
C19_RecordBuffer ==
  /\ []BufferMatches
  /\ [][ /\ ToolEnds =>
              Len(all_tool_results') = Len(all_tool_results) + 1
         /\ pc \notin Ended =>
              SubSeq(all_tool_results', 1, Len(all_tool_results))
                = all_tool_results
         /\ (pc \notin Ended /\ ~ToolEnds) =>
              all_tool_results' = all_tool_results
       ]_vars

\* Two calls of search_flights in a row were executed and each has its own
\* record
C19_Witness ==
  /\ pc = "await_model"
  /\ BufferMatches
  /\ \E i \in 1..Len(all_tool_results) :
       /\ i + 4 <= Len(all_tool_results)
       /\ all_tool_results[i].function = "search_flights"
       /\ all_tool_results[i + 1].function = "search_flights"
       /\ all_tool_results[i].result # all_tool_results[i + 1].result
       /\ all_tool_results[i + 4].function = "book_flights"

\* The transcript is empty, or its first turn is the system turn with the
\* fixed instruction text and no other turn is a system turn
SystemTurnFirst ==
  \/ messages = <<>>
  \/ /\ messages[1] = [role |-> "system", content |-> SYSTEM_PROMPT]
     /\ \A i \in 2..Len(messages) : messages[i].role # "system"

\* C20: in every state the transcript is empty or starts with the one
\* system turn; the system turn is created only by a request that starts on
\* the empty transcript, it stays in place while the transcript grows, over
\* later requests too, and it goes only when a reset empties the
\* transcript.
C20_SystemTurn ==
  /\ []SystemTurnFirst
  /\ [][ /\ (messages = <<>> /\ messages' # <<>>) =>
              /\ pc \in Ended
              /\ pc' = "log_decision"
              /\ requests' = requests + 1
              /\ Len(messages') = 2
              /\ messages'[2].role = "user"
         /\ (messages # <<>> /\ messages' # <<>>) =>
              /\ Len(messages') >= Len(messages)
              /\ SubSeq(messages', 1, Len(messages)) = messages
         /\ (messages # <<>> /\ messages' = <<>>) =>
              /\ pc \in Ended
              /\ pc' = "idle"
              /\ requests' = requests
       ]_vars

\* A second request runs on the transcript of the first: two user turns,
\* one system turn
C20_Witness ==
  /\ requests = 2
  /\ pc = "await_model"
  /\ Len(messages) > 3
  /\ messages[1].role = "system"
  /\ messages[2].role = "user"
  /\ LastUser(messages) > 2
  /\ SystemTurnFirst

\* ------------------------------------------------------------------ C21
\* The transcript a request starts on an empty Conversation State
FreshTranscript(ms) ==
  /\ Len(ms) = 2
  /\ ms[1] = [role |-> "system", content |-> SYSTEM_PROMPT]
  /\ ms[2].role = "user"
  /\ ms[2].content \in UserInputs

\* C21: after reset_conversation the transcript is empty, whatever the
\* state before it was, and a reset of an already reset conversation
\* changes nothing; the request that follows a reset, whatever happened
\* before the reset, starts the loop on exactly one system turn followed
\* by one user turn.
C21_ResetThenFresh ==
  /\ [](pc = "idle" => messages = <<>>)
  /\ [][ /\ (pc \in Ended /\ pc' = "idle") => messages' = <<>>
         /\ (pc = "idle" /\ pc' = "idle") => UNCHANGED vars
         /\ (pc = "idle" /\ pc' = "log_decision") => FreshTranscript(messages')
       ]_vars

\* a second request, started after a reset, is about to query the model
C21_Witness ==
  /\ requests = 2
  /\ pc = "await_model"
  /\ iteration = 0
  /\ FreshTranscript(messages)

\* ------------------------------------------------------------------ C22
IsPrefix(old, new) ==
  /\ Len(old) <= Len(new)
  /\ SubSeq(new, 1, Len(old)) = old

\* a step of reset_conversation
ResetStep == pc \in Ended /\ pc' = "idle"

\* C22: between resets the transcript is append-only: every step of
\* process_request, whether the request goes on, returns the final answer,
\* is aborted, returns an API error or raises, leaves the transcript it
\* found as a prefix of the new one; only reset_conversation removes
\* turns, and it removes all of them.
C22_AppendOnly ==
  [][ /\ ~ResetStep => IsPrefix(messages, messages')
      /\ ResetStep => messages' = <<>>
    ]_vars

\* a second request has finished on top of the turns of the first one
C22_Witness ==
  /\ requests = 2
  /\ pc = "done"
  /\ LastUser(messages) > 2
  /\ Len(messages) > LastUser(messages)

\* ------------------------------------------------------------------ C23
\* The returned envelope carries a tool_results field
CarriesResults ==
  /\ HasReturned
  /\ response.returned
  /\ response.value.type = "dict"
  /\ "tool_results" \in DOMAIN response.value.items

\* The records of the envelope are those of the tool turns appended since
\* the last user turn, one for one
EnvelopeOfThisRequest ==
  LET turns == SelectSeq(RequestTurns(messages), IsToolTurn)
      calls == Requested(RequestTurns(messages))
      recs == response.value.items.tool_results
  IN /\ Len(recs) = Len(turns)
     /\ \A i \in 1..Len(recs) : recs[i].function = calls[i].function.name

\* C23: every request starts with the iteration counter at 0 and an empty
\* record buffer, however the request before it ended; so the envelope of
\* a request holds records of that request only, and a request is aborted
\* only after 10 model calls of its own.
C23_FreshCounters ==
  /\ [](CarriesResults => EnvelopeOfThisRequest)
  /\ [](pc = "aborted" => model_calls = max_iterations)
  /\ [][ (pc \in Ended /\ pc' = "log_decision") =>
           (iteration' = 0 /\ all_tool_results' = <<>>) ]_vars

\* The second request was aborted after 10 model calls of its own; its
\* envelope holds fewer records than the transcript has tool turns
C23_Witness ==
  /\ requests = 2
  /\ pc = "aborted"
  /\ model_calls = max_iterations
  /\ CarriesResults
  /\ Len(response.value.items.tool_results) > 0
  /\ Len(response.value.items.tool_results)
       < Len(SelectSeq(messages, IsToolTurn))

\* ------------------------------------------------------------------ C24
\* The names of the catalog the model is shown
CatalogNames == { tools[i] : i \in DOMAIN tools }

\* C24: no two entries of the tool catalog have the same name, the
\* dispatch table has exactly the names of the catalog, and the execution
\* of a requested name outside the catalog calls no tool function, writes
\* no tool record to the audit sink and yields the unknown-function result.
C24_RegistryOnly ==
  /\ \A i, j \in DOMAIN tools : tools[i] = tools[j] => i = j
  /\ CatalogNames = DOMAIN function_map
  /\ (ex.phase = "output" /\ ex.tool_name \notin CatalogNames) =>
       /\ ex.out.exc = "none"
       /\ ex.out.calls = <<>>
       /\ ex.out.logs = <<>>
       /\ audit = <<>>
       /\ ex.out.result = UnknownFunction(ex.tool_name)

\* A name outside the catalog was requested with arguments a catalog tool
\* would accept, and was refused
C24_Witness ==
  /\ ex.phase = "output"
  /\ ex.tool_name = "book_flights"
  /\ ex.arguments = JDict(ValidArgs.search_flights)
  /\ ex.out.calls = <<>>
  /\ ex.out.result.success = FALSE

\* ------------------------------------------------------------------ C25
\* C25: get_tool_schemas returns the same ordered sequence of ToolSpecs at
\* every point of a process, the one the module was loaded with, and no
\* step of process_request, of a tool execution or of reset_conversation
\* changes the catalog.
C25_CatalogStable ==
  /\ [](get_tool_schemas = TOOL_SCHEMAS)
  /\ [][tools' = tools]_vars

\* A second request, in dry-run mode, has queried the model and executed
\* tools, and the catalog still has all nine ToolSpecs
C25_Witness ==
  /\ dry_run_mode
  /\ requests = 2
  /\ pc = "done"
  /\ Len(invoked) > 0
  /\ Len(get_tool_schemas) = 9

\* ------------------------------------------------------------------ C26
\* Conversation who, in state c, holds what it would hold had it run
\* alone: a transcript that starts with the one system turn, has only its
\* own user turns, answers in its tool turns only tool calls requested in
\* one of its own assistant turns, and a returned envelope whose records are
\* those of the tool turns of its last request
Alone(c, who) ==
  LET ms == c.messages
      turns == SelectSeq(RequestTurns(ms), IsToolTurn)
  IN /\ ms # <<>> => ms[1].role = "system"
     /\ \A i \in 1..Len(ms) :
          /\ ms[i].role = "system" => i = 1
          /\ ms[i].role = "user" => ms[i].content = TwoInputs[who]
          /\ ms[i].role = "tool" =>
               \E j \in 1..(i - 1) :
                 /\ HasToolCalls(ms[j])
                 /\ \E k \in DOMAIN ms[j].tool_calls :
                      ms[j].tool_calls[k].id = ms[i].tool_call_id
     /\ (/\ c.pc = "done"
         /\ c.response.returned
         /\ c.response.value.type = "dict"
         /\ "tool_results" \in DOMAIN c.response.value.items) =>
          Len(c.response.value.items.tool_results) = Len(turns)

Other(who) == CHOOSE c \in Conversations : c # who

\* C26: two conversations held by two TravelAgent instances do not
\* interfere: under every interleaving of the steps of their requests and
\* resets, a step of one conversation leaves the transcript, the locals and
\* the returned envelope of the other as they were, a suspended
\* conversation resumes in the state it was suspended in, and each
\* conversation holds at every point what it would hold had it run alone.
C26_NoInterference ==
  /\ [](Alone(Running, ex.running) /\ Alone(ex.parked, Other(ex.running)))
  /\ [][ IF ex'.running = ex.running
         THEN ex'.parked = ex.parked
         ELSE Running' = ex.parked /\ ex'.parked = Running
       ]_vars

\* Conversation B has run a whole request with tool executions while the
\* request of conversation A is suspended in the middle of a tool call: the
\* tool has written its record and its tool turn is not appended yet
C26_Witness ==
  /\ ex.running = "B"
  /\ pc = "done"
  /\ Len(SelectSeq(messages, IsToolTurn)) > 0
  /\ ex.parked.pc = "tool_body"
  /\ ex.parked.pending.written = 1
  /\ ex.parked.messages # <<>>

\* ------------------------------------------------------------------ C27
\* Every line of the file is one whole record followed by its newline
WholeLines ==
  /\ Len(ex.file) % 2 = 0
  /\ \A i \in 1..Len(ex.file) :
       IF i % 2 = 1
       THEN /\ ex.file[i].text = "record"
            /\ ex.file[i + 1].text = "newline"
            /\ ex.file[i + 1].audit_id = ex.file[i].audit_id
       ELSE ex.file[i].text = "newline"

\* The positions of the file where the record of call id stands
RecordsOf(id) ==
  { i \in 1..Len(ex.file) :
      ex.file[i].text = "record" /\ ex.file[i].audit_id = id }

\* The calls in progress whose line has reached the file
Flushed ==
  { w \in Conversations :
      \/ ex.writers[w].pc = "closed"
      \/ ex.writers[w].pc = "written" /\ ex.writers[w].long }

\* The file has the record of every log call that returned and of every
\* call whose line was flushed, once each, and nothing else
NothingLost ==
  /\ \A k \in 1..Len(ex.returned) :
       Cardinality(RecordsOf(ex.returned[k])) = 1
  /\ \A w \in Flushed : Cardinality(RecordsOf(ex.writers[w].audit_id)) = 1
  /\ Len(ex.file) = 2 * (Len(ex.returned) + Cardinality(Flushed))
  /\ 2 * Len(audit) = Len(ex.file)

\* C27: under every interleaving of the steps of AuditLogger.log calls made
\* by several conversations, each call adds one whole record as one line:
\* no line holds pieces of two records or part of one, no record of a
\* call is missing, doubled or overwritten, and what is in the file is
\* never changed.
C27_AtomicAppends ==
  /\ [](WholeLines /\ NothingLost)
  /\ [][IsPrefix(ex.file, ex'.file)]_vars

\* Both writers had opened the file before either of them wrote, both
\* records are in the file, and the call whose record is second returned
\* first
C27_Witness ==
  /\ Len(ex.file) = 4
  /\ ex.file[1].audit_id[1] # ex.file[3].audit_id[1]
  /\ \A w \in Conversations :
       ex.writers[w].calls = 1 /\ ex.writers[w].pos = 0
  /\ ex.returned[1] = ex.file[3].audit_id

\* ------------------------------------------------------------------ C28
\* C28: the audit sink is append-only, every agent decision (the start of
\* a request, the dispatch of a requested tool call) appends its record,
\* and every execution of a requested tool call appends a record of that
\* function as well, also when it ends as an unknown-function or
\* invalid-arguments failure.
C28_EveryExecutionLogged ==
  [][ /\ IsPrefix(audit, audit')
      /\ pc = "log_decision" =>
           audit' = Append(audit, AgentDecision(<<>>))
      /\ pc = "log_dispatch" =>
           audit' = Append(audit, AgentDecision(<< func_name >>))
      /\ ToolEnds =>
           /\ pending.written > 0
           /\ audit[Len(audit)].function = func_name
    ]_vars

\* The execution of a requested call has ended, its record and tool turn
\* are appended, and the last record of the audit sink is still the
\* decision to call it
C28_ExecutionNotLogged ==
  /\ pc \in {"execute_tools", "await_model"}
  /\ all_tool_results # <<>>
  /\ all_tool_results[Len(all_tool_results)].function = func_name
  /\ all_tool_results[Len(all_tool_results)].result.success = FALSE
  /\ audit[Len(audit)] = AgentDecision(<< func_name >>)

\* ------------------------------------------------------------------ C29
\* The step in which a model response without tool calls ends the request:
\* the model call returned and the loop is left
ZeroToolStep ==
  /\ pc = "model_call"
  /\ pc' \in Ended

IsFinalTurn(t) == t.role = "assistant" /\ ~HasToolCalls(t)

\* C29: a request appends a final assistant turn, without tool calls and
\* with the content of the model, exactly when it ends through a model
\* response without tool calls, and that turn is then the last one of the
\* transcript; a request that ends by running out of iterations or by a
\* failure of the model call appends none.
C29_FinalTurn ==
  [][ /\ ZeroToolStep =>
           /\ pc' = "done"
           /\ messages' = Append(messages,
                                 [role |-> "assistant",
                                  content |-> FinalContent(message'.content)])
      /\ (pc \notin Ended /\ pc' \in Ended /\ ~ZeroToolStep) =>
           messages' = messages
      /\ (/\ Len(messages') > Len(messages)
          /\ IsFinalTurn(messages'[Len(messages')])) => ZeroToolStep
    ]_vars

\* A model response without tool calls has ended the request, and the last
\* turn of the transcript is still a tool turn
C29_EndedWithoutFinalTurn ==
  /\ pc = "raised"
  /\ message.tool_calls = <<>>
  /\ message.content = ContentNumber
  /\ IsToolTurn(messages[Len(messages)])

\* ------------------------------------------------------------------ C30
\* The state of the loop a position of process_request belongs to
LoopState(p) ==
  CASE p \in {"log_decision", "await_model", "model_call", "log_error",
              "error_logged"} -> "AWAIT_MODEL"
    [] p \in {"execute_tools", "log_dispatch", "tool_call", "tool_body"}
         -> "EXECUTE_TOOLS"
    [] p = "done" -> "DONE"
    [] p = "aborted" -> "ABORTED"
    [] OTHER -> p

LoopTransitions ==
  { << "AWAIT_MODEL", "EXECUTE_TOOLS" >>, << "AWAIT_MODEL", "DONE" >>,
    << "AWAIT_MODEL", "ABORTED" >>, << "EXECUTE_TOOLS", "AWAIT_MODEL" >> }

\* C30: a request in progress only moves from AWAIT_MODEL to EXECUTE_TOOLS
\* (the response has at least one tool call), from AWAIT_MODEL to DONE,
\* from AWAIT_MODEL to ABORTED (the iteration bound is reached) and from
\* EXECUTE_TOOLS to AWAIT_MODEL (after the last call of the batch); DONE
\* and ABORTED are left only by the next request or a reset; and the
\* iteration counter goes up by one with each model call and at no other
\* step.
C30_LoopTransitions ==
  /\ [](iteration = model_calls)
  /\ [][ /\ (pc \notin Ended /\ LoopState(pc') # LoopState(pc)) =>
              << LoopState(pc), LoopState(pc') >> \in LoopTransitions
         /\ (pc \notin Ended /\ LoopState(pc') = "EXECUTE_TOOLS"
               /\ LoopState(pc) = "AWAIT_MODEL") =>
              Len(message'.tool_calls) > 0
         /\ (pc \notin Ended /\ pc' = "aborted") =>
              iteration = max_iterations
         /\ (LoopState(pc) = "EXECUTE_TOOLS"
               /\ LoopState(pc') = "AWAIT_MODEL") =>
              tc_index = Len(message.tool_calls)
         /\ pc \notin Ended =>
              iteration' = (IF pc = "await_model" /\ pc' = "model_call"
                            THEN iteration + 1 ELSE iteration)
         /\ pc \in {"done", "aborted"} =>
              \/ pc' = "idle"
              \/ pc' = "log_decision" /\ requests' = requests + 1
       ]_vars

\* The first model call of a request has left the loop by an exception:
\* the request is neither DONE nor ABORTED
C30_LeftByException ==
  /\ pc = "raised"
  /\ LoopState(pc) \notin {"DONE", "ABORTED"}
  /\ iteration = 1
  /\ model_calls = 1
  /\ all_tool_results = <<>>

\* ------------------------------------------------------------------ C31
\* Number of user turns of transcript ms
UserTurns(ms) == Len(SelectSeq(ms, LAMBDA t : t.role = "user"))

\* C31: each process_request appends exactly one user turn, carrying the
\* input, before its first model call; the system turn is put in front of
\* it only when the transcript was empty; no other step of the request
\* appends a user turn. This holds whatever way the request before ended.
C31_OneUserTurn ==
  /\ []((pc = "log_decision" \/ (pc = "await_model" /\ iteration = 0)) =>
          /\ messages[Len(messages)].role = "user"
          /\ messages[Len(messages)].content \in UserInputs
          /\ model_calls = 0)
  /\ [][ /\ (pc \in Ended /\ pc' = "log_decision") =>
              /\ UserTurns(messages') = UserTurns(messages) + 1
              /\ IF messages = <<>>
                 THEN /\ Len(messages') = 2
                      /\ messages'[1] = [role |-> "system",
                                         content |-> SYSTEM_PROMPT]
                 ELSE /\ Len(messages') = Len(messages) + 1
                      /\ SubSeq(messages', 1, Len(messages)) = messages
         /\ pc \notin Ended => UserTurns(messages') = UserTurns(messages)
       ]_vars

\* A second request has appended its user turn right after the last tool
\* turn of a request that was aborted
C31_Witness ==
  /\ requests = 2
  /\ pc = "await_model"
  /\ iteration = 0
  /\ UserTurns(messages) = 2
  /\ IsToolTurn(messages[Len(messages) - 1])
  /\ Len(SelectSeq(messages, IsToolTurn)) >= max_iterations

\* ------------------------------------------------------------------ C32
\* C32: at every model call chat.completions.create is given the whole
\* transcript as it is at that point (the system turn, the turns of the
\* earlier requests since the last reset, the user turn of this request
\* and the assistant and tool turns of its earlier iterations) and the
\* whole tool catalog.
C32_FullStateSent ==
  /\ [](pc = "model_call" =>
          /\ create_kwargs.messages = messages
          /\ create_kwargs.messages[1].role = "system"
          /\ create_kwargs.tools = TOOL_SCHEMAS)
  /\ [][ (pc = "await_model" /\ pc' = "model_call") =>
           /\ create_kwargs'.messages = messages
           /\ messages' = messages
           /\ create_kwargs'.tools = tools
       ]_vars

\* The third model call of a second request is given the turns of the
\* first request, both user turns and the tool turns of this request
C32_Witness ==
  /\ pc = "model_call"
  /\ requests = 2
  /\ iteration = 3
  /\ UserTurns(create_kwargs.messages) = 2
  /\ LastUser(create_kwargs.messages) > 3
  /\ Len(SelectSeq(RequestTurns(create_kwargs.messages), IsToolTurn)) = 3
  /\ Len(create_kwargs.tools) = 9

\* ------------------------------------------------------------------ C33
\* Tool turns the request has appended so far
ToolTurnsSoFar == SelectSeq(RequestTurns(messages), IsToolTurn)

\* Tool calls of the batches before the one in progress
EarlierCalls == Len(Requested(RequestTurns(messages))) - Len(message.tool_calls)

\* The executor is about to run for call tc_index of the batch: the decision
\* record of this call is the last record of the audit sink, and the calls
\* before it have their record and their tool turn, this one has neither
BeforeExecutor ==
  /\ audit[Len(audit)] = AgentDecision(<< func_name >>)
  /\ func_name = message.tool_calls[tc_index].name
  /\ Len(all_tool_results) = EarlierCalls + tc_index - 1
  /\ Len(ToolTurnsSoFar) = EarlierCalls + tc_index - 1

\* C33: for each requested invocation the loop first writes the decision
\* audit record, then calls the executor, then appends the record to the
\* buffer and the tool turn with the id of the call and the result; all of
\* this is done for one invocation before the next one is started.
C33_InvocationOrder ==
  /\ [](pc = "tool_call" => BeforeExecutor)
  /\ [](pc \in {"execute_tools", "log_dispatch", "tool_body"} =>
          /\ Len(all_tool_results) = EarlierCalls + tc_index - 1
          /\ Len(ToolTurnsSoFar) = EarlierCalls + tc_index - 1)
  /\ [][ /\ pc = "execute_tools" =>
              /\ pc' = "log_dispatch"
              /\ func_name' = message.tool_calls[tc_index].name
              /\ audit' = audit
              /\ invoked' = invoked
              /\ all_tool_results' = all_tool_results
              /\ messages' = messages
         /\ pc = "log_dispatch" =>
              /\ pc' = "tool_call"
              /\ audit' = Append(audit, AgentDecision(<< func_name >>))
              /\ invoked' = invoked
              /\ all_tool_results' = all_tool_results
              /\ messages' = messages
         /\ ToolRuns =>
              /\ pc' = "tool_body"
              /\ IsPrefix(audit, audit')
              /\ all_tool_results' = all_tool_results
              /\ messages' = messages
         /\ ToolEnds =>
              /\ audit' = audit
              /\ Len(all_tool_results') = Len(all_tool_results) + 1
              /\ Len(messages') = Len(messages) + 1
              /\ IsToolTurn(messages'[Len(messages')])
              /\ messages'[Len(messages')].tool_call_id
                   = message.tool_calls[tc_index].id
              /\ messages'[Len(messages')].content
                   = JsonDumps(all_tool_results'[Len(all_tool_results')].result)
       ]_vars

\* The second call of a batch is about to be executed; the first one has
\* its record and its tool turn
C33_Witness ==
  /\ pc = "tool_call"
  /\ tc_index = 2
  /\ BeforeExecutor
  /\ Len(all_tool_results) >= 1
  /\ IsToolTurn(messages[Len(messages)])

\* ---------------------------------------------------------------- C34
\* The request of conversation c has ended through a model response
\* without tool calls
EndedByAnswer(c) ==
  /\ c.pc \in {"done", "raised"}
  /\ c.message # NoMessage
  /\ c.message.tool_calls = <<>>

\* C34: the final envelope is a function of the final content of the model
\* and of the accumulated records alone: two requests, held by two
\* instances with different modes, inputs and transcripts, which end
\* through a model response with the same content over the same records
\* end the same way and return identical envelopes.
C34_SameInputsSameEnvelope ==
  (/\ EndedByAnswer(Running)
   /\ EndedByAnswer(ex.parked)
   /\ message.content = ex.parked.message.content
   /\ all_tool_results = ex.parked.all_tool_results) =>
     /\ pc = ex.parked.pc
     /\ raised = ex.parked.raised
     /\ response = ex.parked.response

\* Two conversations with different modes and different transcripts have
\* both ended with the same content over the same non-empty records
C34_Witness ==
  /\ EndedByAnswer(Running)
  /\ EndedByAnswer(ex.parked)
  /\ pc = "done"
  /\ message.content = ex.parked.message.content
  /\ all_tool_results = ex.parked.all_tool_results
  /\ all_tool_results # <<>>
  /\ dry_run_mode # ex.parked.dry_run_mode
  /\ messages # ex.parked.messages
  /\ response.returned

\* ------------------------------------------------------- the audit record
MaxAuditRecords == 1

\* What _generate_audit_id and datetime.now can give a call
AuditIds == {"AUD-1", "AUD-2"}
Timestamps == {"t1", "t2"}

\* Callers of AuditLogger.log and what they pass
LogFunctions == {"_agent_error", "search_flights", "plan_destination"}
LogParameters == JDict([user_input |-> "u"])
PyNone == JOther("null", {})
LogResults ==
  { PyNone,
    JDict([success |-> TRUE]),
    JDict([success |-> FALSE, error |-> "x"]) }
LogErrors == {None, "x"}

\* Variant of the log entry that records the result as it was passed
log_entryKeepsResult(audit_id, timestamp, function_name, parameters, result, success, error) ==
  [audit_id |-> audit_id, timestamp |-> timestamp,
   function |-> function_name, parameters |-> parameters,
   result |-> result, success |-> success, error |-> error]

\* logger.py lines 46-54: the log entry of one call
log_entry(audit_id, timestamp, function_name, parameters, result, success, error) ==
  [audit_id |-> audit_id, timestamp |-> timestamp,
   function |-> function_name, parameters |-> parameters,
   result |-> IF success THEN result ELSE PyNone,
   success |-> success, error |-> error]

LogInit ==
  /\ messages = <<>>
  /\ dry_run_mode = FALSE
  /\ env = NoKeys
  /\ pc = "idle"
  /\ iteration = 0
  /\ all_tool_results = <<>>
  /\ message = NoMessage
  /\ tc_index = 0
  /\ func_name = None
  /\ arguments = NoArguments
  /\ response = NoResponse
  /\ raised = "none"
  /\ model_calls = 0
  /\ create_kwargs = NoCall
  /\ pending = NoPending
  /\ invoked = <<>>
  /\ requests = 0
  /\ deviations = 0
  /\ next_id = 1
  /\ tools = TOOL_SCHEMAS
  /\ audit = <<>>
  /\ ex = [phase |-> "log", passed |-> <<>>, returned |-> <<>>]

\* AuditLogger.log(function_name, parameters, result, success, error),
\* lines 30-60: one record goes to the file, which is what a reader of the
\* audit log gets; the call returns the id of the record. passed keeps what
\* the caller gave
log(function_name, parameters, result, success, error) ==
  /\ ex.phase = "log"
  /\ Len(audit) < MaxAuditRecords
  /\ \E audit_id \in AuditIds : \E timestamp \in Timestamps :
       /\ audit' = Append(audit, log_entry(audit_id, timestamp,
                                           function_name, parameters,
                                           result, success, error))
       /\ ex' = [ex EXCEPT
                   !.passed = Append(@, [result |-> result,
                                         success |-> success]),
                   !.returned = Append(@, audit_id)]
  /\ UNCHANGED << messages, dry_run_mode, tools, env, pc, iteration,
                  all_tool_results, message, tc_index, func_name, arguments,
                  response, raised, model_calls, create_kwargs, pending,
                  invoked, requests, deviations, next_id >>

\* lines 62-77: log_agent_decision(user_input, decision, tools_selected)
log_agent_decision(user_input, decision, tools_selected) ==
  log("_agent_decision",
      JDict([user_input |-> user_input, tools_selected |-> tools_selected]),
      JDict([decision |-> decision]), TRUE, None)

\* lines 79-90: log_refusal(user_input, reason)
log_refusal(user_input, reason) ==
  log("_agent_refusal", JDict([user_input |-> user_input]),
      JDict([reason |-> reason]), TRUE, None)

LogNext ==
  \/ \E f \in LogFunctions : \E r \in LogResults : \E s \in BOOLEAN :
       \E e \in LogErrors : log(f, LogParameters, r, s, e)
  \/ \E t \in {<<>>, << "search_flights" >>} :
       log_agent_decision("u", "Processing request", t)
  \/ log_refusal("u", "r")

SpecLog == LogInit /\ [][LogNext]_vars

\* ---------------------------------------------------------------- C35
AuditFields ==
  {"audit_id", "timestamp", "function", "parameters", "result", "success",
   "error"}

\* C35: every audit record has the fields audit_id, timestamp, function,
\* parameters, result, success and error; a record written with
\* success=false has result null whatever result the caller passed, and a
\* record written with success=true has the result that was passed.
C35_RecordShape ==
  ex.phase = "log" =>
    \A i \in 1..Len(audit) :
      /\ DOMAIN audit[i] = AuditFields
      /\ audit[i].audit_id = ex.returned[i]
      /\ audit[i].success = ex.passed[i].success
      /\ audit[i].success = FALSE => audit[i].result = PyNone
      /\ audit[i].success = TRUE => audit[i].result = ex.passed[i].result

\* The failure record of the agent: the caller passed an error result with
\* success=false, and the record has result null
C35_Witness ==
  /\ ex.phase = "log"
  /\ Len(audit) >= 1
  /\ audit[1].function = "_agent_error"
  /\ ex.passed[1].result = JDict([success |-> FALSE, error |-> "x"])
  /\ ex.passed[1].success = FALSE
  /\ audit[1].result = PyNone
  /\ audit[1].error = "x"

\* ---------------------------------------------------------------- C36
\* Some record of the request has a failed result
SomeRecordFailed ==
  \E i \in 1..Len(all_tool_results) :
    all_tool_results[i].result.success = FALSE

\* C36: the success flag of the envelope does not depend on the outcomes of
\* the tools: a request that ends through a model response without tool
\* calls whose content does not itself set success returns an envelope with
\* success = true, whatever the records of the request hold.
C36_SuccessIgnoresOutcomes ==
  [][ (/\ ZeroToolStep
       /\ ~Supplies(FinalContent(message'.content), "success")) =>
        /\ pc' = "done"
        /\ response'.returned
        /\ response'.value.type = "dict"
        /\ response'.value.items.success = TRUE
    ]_vars

\* A request with a failed record has ended through a zero-tool response
\* that does not set success, and has returned no envelope
C36_NoEnvelope ==
  /\ pc = "raised"
  /\ raised = "TypeError"
  /\ message.tool_calls = <<>>
  /\ ~Supplies(FinalContent(message.content), "success")
  /\ SomeRecordFailed
  /\ ~response.returned

\* ---------------------------------------------------------------- C37
\* The dry_run value the payload of the invocation gave: "omitted" if none
SuppliedDryRun ==
  IF "dry_run" \in DOMAIN ex.arguments.items
  THEN ex.arguments.items.dry_run ELSE "omitted"

\* C37: while the dry-run flag is not set, the booking wrappers pass the
\* payload of the model on as it is, dry_run included or left out: a
\* booking that succeeds has status CONFIRMED when dry_run was left out or
\* false and status DRY_RUN when dry_run was true.
C37_PassThrough ==
  (/\ ex.phase = "output"
   /\ ~dry_run_mode
   /\ ex.tool_name \in BookingTools
   /\ ex.arguments.type = "dict") =>
     /\ ex.out.exc = "none"
     /\ \A i \in 1..Len(ex.out.calls) :
          /\ ex.out.calls[i].func = ex.tool_name
          /\ ex.out.calls[i].kwargs = ex.arguments.items
     /\ ex.out.result.success = TRUE =>
          /\ Len(ex.out.calls) = 1
          /\ SuppliedDryRun \in {"omitted", "false"} =>
               ex.out.result.status = "CONFIRMED"
          /\ SuppliedDryRun = "true" => ex.out.result.status = "DRY_RUN"

\* With the flag not set, a flight booking whose payload left dry_run out
\* came out as CONFIRMED
C37_Witness ==
  /\ ex.phase = "output"
  /\ ~dry_run_mode
  /\ ex.tool_name = "book_flight"
  /\ ex.arguments = JDict(ValidArgs.book_flight)
  /\ SuppliedDryRun = "omitted"
  /\ ex.out.result.success = TRUE
  /\ ex.out.result.status = "CONFIRMED"
  /\ ex.out.calls[1].kwargs = ValidArgs.book_flight

\* ---------------------------------------------------------------- C38
\* C38: the names shown to the model and the names bound in function_map
\* are the same set: every advertised tool has a binding, every binding is
\* advertised, and the executor answers "Unknown function" for a requested
\* name exactly when the name is not advertised.
C38_AdvertisedIffBound ==
  /\ \A i \in DOMAIN tools : tools[i] \in DOMAIN function_map
  /\ \A f \in DOMAIN function_map : \E i \in DOMAIN tools : tools[i] = f
  /\ (ex.phase = "output" /\ ex.out.exc = "none") =>
       (ex.out.result = UnknownFunction(ex.tool_name)
          <=> ~(\E i \in DOMAIN tools : tools[i] = ex.tool_name))

\* The last tool of the catalog was requested and its binding was called
C38_Witness ==
  /\ ex.phase = "output"
  /\ ex.tool_name = tools[Len(tools)]
  /\ ex.arguments = JDict(ValidArgs.get_attractions)
  /\ Len(ex.out.calls) = 1
  /\ ex.out.calls[1].func = function_map[ex.tool_name]

\* ------------------------------------------------- the command line (main)
\* Strings whose characters matter are sequences of characters
StrTrue == << "t", "r", "u", "e" >>
StrFalse == << "f", "a", "l", "s", "e" >>

\* str.lower() on the characters that occur
LowerChar(c) ==
  CASE c = "T" -> "t" [] c = "R" -> "r" [] c = "U" -> "u" [] c = "E" -> "e"
    [] c = "F" -> "f" [] c = "A" -> "a" [] c = "L" -> "l" [] c = "S" -> "s"
    [] c = "Y" -> "y" [] OTHER -> c
Lower(s) == [i \in DOMAIN s |-> LowerChar(s[i])]

\* A variable of the environment or of the .env file: set or not
Unset == [set |-> FALSE, value |-> <<>>]
SetTo(s) == [set |-> TRUE, value |-> s]

\* Values DRY_RUN_MODE is given
DryRunValues ==
  { StrTrue, << "T", "R", "U", "E" >>, << "T", "r", "u", "e" >>,
    << "t", "R", "u", "E" >>, StrFalse, << "F", "a", "l", "s", "e" >>, <<>>,
    << "1" >>, << "y", "e", "s" >>, << "t", "r", "u", "e", " " >> }

\* load_dotenv(): a variable of the .env file is put into the environment
\* unless the environment has it already
load_dotenv(environ, dotenv) ==
  [k \in DOMAIN environ |-> IF environ[k].set THEN environ[k] ELSE dotenv[k]]

\* os.getenv(key, default)
Getenv(environ, key, default) ==
  IF environ[key].set THEN environ[key].value ELSE default

\* Variant of load_config that compares DRY_RUN_MODE with "true" as it is
load_configCaseSensitive(environ) ==
  IF Getenv(environ, "GROQ_API_KEY", <<>>) = <<>>
  THEN [exc |-> "ValueError", dry_run_mode |-> FALSE]
  ELSE [exc |-> "none",
        dry_run_mode |-> Getenv(environ, "DRY_RUN_MODE", StrFalse) = StrTrue]

\* config.load_config after load_dotenv: the Config, or the ValueError of
\* Config.__post_init__ for an empty GROQ_API_KEY
load_config(environ) ==
  IF Getenv(environ, "GROQ_API_KEY", <<>>) = <<>>
  THEN [exc |-> "ValueError", dry_run_mode |-> FALSE]
  ELSE [exc |-> "none",
        dry_run_mode |->
          Lower(Getenv(environ, "DRY_RUN_MODE", StrFalse)) = StrTrue]

CliInit ==
  /\ messages = <<>>
  /\ dry_run_mode = FALSE
  /\ env = NoKeys
  /\ pc = "idle"
  /\ iteration = 0
  /\ all_tool_results = <<>>
  /\ message = NoMessage
  /\ tc_index = 0
  /\ func_name = None
  /\ arguments = NoArguments
  /\ response = NoResponse
  /\ raised = "none"
  /\ model_calls = 0
  /\ create_kwargs = NoCall
  /\ pending = NoPending
  /\ invoked = <<>>
  /\ requests = 0
  /\ deviations = 0
  /\ next_id = 1
  /\ tools = TOOL_SCHEMAS
  /\ audit = <<>>
  /\ \E v \in {Unset} \cup {SetTo(s) : s \in DryRunValues} :
     \E d \in {Unset, SetTo(StrTrue), SetTo(StrFalse)} :
     \E k \in {SetTo(<<>>), SetTo(<< "k" >>)} :
     \E a \in BOOLEAN :
       ex = [phase |-> "cli", step |-> "parsed",
             environ |-> [DRY_RUN_MODE |-> v, GROQ_API_KEY |-> k],
             dotenv |-> [DRY_RUN_MODE |-> d, GROQ_API_KEY |-> Unset],
             args |-> [dry_run |-> a],
             config |-> [dry_run_mode |-> FALSE]]

CliFrame ==
  UNCHANGED << messages, tools, audit, env, pc, iteration, all_tool_results,
               message, tc_index, func_name, arguments, response, raised,
               model_calls, create_kwargs, pending, invoked, requests, deviations,
               next_id >>

\* main.py lines 361-371: config = load_config(), exit(1) on ValueError
CliLoadConfig ==
  /\ ex.phase = "cli"
  /\ ex.step = "parsed"
  /\ LET environ == load_dotenv(ex.environ, ex.dotenv)
         c == load_config(environ)
     IN ex' = [ex EXCEPT !.environ = environ,
                         !.step = IF c.exc = "none" THEN "loaded" ELSE "exit",
                         !.config = [dry_run_mode |-> c.dry_run_mode]]
  /\ dry_run_mode' = dry_run_mode
  /\ CliFrame

\* main.py lines 374-376: if args.dry_run: config.dry_run_mode = True
CliOverride ==
  /\ ex.phase = "cli"
  /\ ex.step = "loaded"
  /\ ex' = [ex EXCEPT !.step = "overridden",
                      !.config.dry_run_mode =
                         IF ex.args.dry_run THEN TRUE ELSE @]
  /\ dry_run_mode' = dry_run_mode
  /\ CliFrame

\* main.py line 381: agent = create_agent(config)
CliCreateAgent ==
  /\ ex.phase = "cli"
  /\ ex.step = "overridden"
  /\ ex' = [ex EXCEPT !.step = "agent"]
  /\ dry_run_mode' = ex.config.dry_run_mode
  /\ CliFrame

CliNext == CliLoadConfig \/ CliOverride \/ CliCreateAgent

SpecCli == CliInit /\ [][CliNext]_vars

\* ---------------------------------------------------------------- C39
\* The spellings of "true" in upper and lower case letters
SpellingsOfTrue ==
  { s \in [1..4 -> {"t", "T", "r", "R", "u", "U", "e", "E"}] :
      /\ s[1] \in {"t", "T"}
      /\ s[2] \in {"r", "R"}
      /\ s[3] \in {"u", "U"}
      /\ s[4] \in {"e", "E"} }

\* The environment variable DRY_RUN_MODE, as the process has it when the
\* configuration is read, is "true" in some spelling
EnvSaysDryRun ==
  /\ ex.environ.DRY_RUN_MODE.set
  /\ ex.environ.DRY_RUN_MODE.value \in SpellingsOfTrue

\* C39: the dry-run flag the agent of the command line is created with is
\* on if and only if the environment variable DRY_RUN_MODE is "true" in
\* some spelling of upper and lower case or --dry-run was passed; the
\* command line switches the flag of the configuration on and never off.
C39_EffectiveFlag ==
  /\ [](ex.step = "agent" =>
          (dry_run_mode <=> (EnvSaysDryRun \/ ex.args.dry_run)))
  /\ [][ ex.step = "loaded" =>
           /\ ex.config.dry_run_mode => ex'.config.dry_run_mode
           /\ ex'.config.dry_run_mode
                <=> (ex.config.dry_run_mode \/ ex.args.dry_run)
       ]_vars

\* DRY_RUN_MODE=TRUE in the environment and no --dry-run: the agent runs
\* in dry-run mode
C39_Witness ==
  /\ ex.step = "agent"
  /\ ex.environ.DRY_RUN_MODE = SetTo(<< "T", "R", "U", "E" >>)
  /\ ~ex.args.dry_run
  /\ dry_run_mode

\* ---------------------------------------------------------------- C40
\* The provider of search tool f is configured and its attempt fails: it
\* raises, returns success=false or, for flights, returns no flights
ProviderFailed(f) ==
  \/ f = "search_flights" /\ env.flight_api \in {"raises", "fails", "empty"}
  \/ f = "search_hotels" /\ env.search_api \in {"raises", "fails"}

\* What the execution gives when no provider is configured
MockResults ==
  { o.result :
      o \in execute_tool(ex.tool_name, ex.arguments, dry_run_mode, NoKeys) }

\* C40: search_flights and search_hotels never report a failure of the
\* provider: when the provider is configured and its attempt fails, the
\* result is the one the tool gives without a provider, made from mock
\* data; for a well-formed payload it has success = true and source
\* "mock", and no successful result names another source.
C40_FallbackToMock ==
  (/\ ex.phase = "output"
   /\ ProviderFailed(ex.tool_name)
   /\ ex.arguments.type = "dict") =>
     /\ ex.out.exc = "none"
     /\ ex.out.result \in MockResults
     /\ ex.out.result.success = TRUE => ex.out.result.source = "mock"
     /\ ex.arguments = JDict(ValidArgs[ex.tool_name]) =>
          ex.out.result.success = TRUE

\* The flight provider raised: the fallback record and the record of the
\* mock result are written, and the result is a success from mock data
C40_Witness ==
  /\ ex.phase = "output"
  /\ ex.tool_name = "search_flights"
  /\ env.flight_api = "raises"
  /\ ex.arguments = JDict(ValidArgs.search_flights)
  /\ ex.out.result.success = TRUE
  /\ ex.out.result.source = "mock"
  /\ Len(ex.out.logs) = 2

====
